---------------------------- MODULE Spec2Model ----------------------------
(***************************************************************************)
(* Model of the evaluation server's calculation port (Calculate, the       *)
(* serial and the concurrent CalculateBatch) and message handler chain     *)
(* (HandlerChain.AddHandler / HandlerChain.Process), as given in           *)
(* docs/evaluation-server/02-消息处理模块设计与实现.md, and of the           *)
(* collection server's validation services (SequentialService,             *)
(* ConcurrentService), as given in                                         *)
(* docs/collection-server/02-校验模块设计与实现.md.                          *)
(* Further parts: the adapter factory, the three message handlers' Handle  *)
(* and concurrent Calculate calls (evaluation server), and the             *)
(* ValidationAbility of a question, as given in                            *)
(* docs/apiserver/01-问卷&答卷的设计与实现.md.                                *)
(***************************************************************************)
EXTENDS Integers, Sequences, FiniteSets, TLC

(***************************************************************************)
(* Bounds of the model.                                                    *)
(***************************************************************************)
\* largest number of requests in one batch
MaxBatch == 3
\* largest maxConcurrency the adapter is constructed with
MaxConcurrency == 3
\* number of goroutines that call the handler chain
MaxThreads == 2
\* largest number of AddHandler calls
MaxHandlers == 3
\* largest number of Process calls
MaxMessages == 1
\* number of goroutines that call ValidateAnswersheet on one service
MaxCalls == 2
\* largest number of answers one service is handed, over all its calls
MaxAnswers == 2
\* largest number of operands of a request handed to Calculate
MaxOperands == 2
\* largest number of maxConcurrency arguments of a CreateCalculationPort call
MaxArgs == 2
\* largest number of validation rules of one question
MaxRules == 2
\* largest length of an answer's text
MaxValueLen == 2
\* number of goroutines that call Calculate on one adapter
MaxCalculations == 3

VARIABLES
    \* ---- ConcurrentCalculationAdapter.CalculateBatch ----
    requests,        \* the batch handed to CalculateBatch ([]*CalculationRequest)
    maxConcurrency,  \* the adapter's maxConcurrency field
    opc,             \* position of the goroutine that called CalculateBatch
    spawned,         \* loop counter i of the worker start loop
    sent,            \* number of tasks the caller has put on taskChan
    taskChan,        \* buffered channel of (index, request)
    taskClosed,      \* whether taskChan has been closed
    resultChan,      \* buffered channel of (index, result, err)
    results,         \* the caller's result slice, indexed by request position
    collected,       \* number of results the caller has received
    firstErr,        \* the first hard error the caller has received
    ret,             \* what CalculateBatch returned
    wpc,             \* position of each worker goroutine
    wtask,           \* the task a worker holds
    calcCount,       \* history: how often Calculate ran for each index
    takeCount,       \* history: how often each index was received from taskChan
    firstHard,       \* history: the index of the first hard error received (-1: none)
    outOfOrder,      \* history: some result was received out of request order
    errEarly,        \* history: the first hard error was received while another
                     \*          request had not been calculated yet
    \* ---- HandlerChain ----
    handlers,        \* hc.handlers
    muWriter,        \* hc.mu: the goroutine holding the write lock (0: none)
    muReaders,       \* hc.mu: the goroutines holding a read lock
    tpc,             \* position of each calling goroutine
    nested,          \* the goroutine's AddHandler call was made inside a handler
    adding,          \* the handler passed to AddHandler
    message,         \* the message passed to Process
    local,           \* Process's local copy of the handler list
    idx,             \* Process's position in its range loop (1-based)
    perr,            \* what the goroutine's last Process call returned
    nextHandler,     \* number of handlers created so far
    nextMessage,     \* number of messages delivered so far
    effects,         \* the side effects handlers have committed: (handler, message)
    invoked,         \* history: the handlers the goroutine's Process call has invoked
    registered,      \* history: the handlers in the order AddHandler registered them
    regAtCopy,       \* history: registered, at the moment Process copied the list
    \* ---- SerialCalculationAdapter.CalculateBatch ----
    serialRequests,  \* the batch handed to CalculateBatch
    spc,             \* position of the goroutine that called CalculateBatch
    serialIndex,     \* loop variable i of the range loop
    serialResults,   \* results, filled by position
    serialRet,       \* what CalculateBatch returned
    serialCalls,     \* history: the indexes Calculate was called for, in call order
    \* ---- SequentialService / ConcurrentService ----
    svc,             \* the service NewValidationService returned
    semaphore,       \* s.semaphore: the number of tokens in the channel
    req,             \* the request of each ValidateAnswersheet call
    vpc,             \* position of each goroutine that calls ValidateAnswersheet
    vpos,            \* position of the call's range loop over the answers (1-based)
    gpc,             \* position of each validation goroutine of each call
    wg,              \* the call's WaitGroup counter
    closer,          \* position of the goroutine that waits and closes errorChan
    errorChan,       \* the call's buffered error channel
    errors,          \* the errors the call has received from errorChan
    vret,            \* what ValidateAnswersheet returned
    cancelled,       \* whether the call's ctx has been cancelled
    evalCount,       \* history: how often each answer of the call was validated
    evalOutOfOrder,  \* history: an answer was validated before one positioned
                     \*          ahead of it
    fetchLog,        \* history: the outcomes of the call's questionnaire fetches
    testeeCount,     \* history: how often the call validated the testee metadata
    \* ---- CalculationPort.Calculate ----
    callRequest,     \* the request handed to Calculate
    callOut,         \* what Calculate returned
    \* ---- AdapterFactory.CreateCalculationPort ----
    portArgs,        \* the arguments of the CreateCalculationPort call
    port,            \* the adapter CreateCalculationPort returned
    portPc,          \* position of the goroutine that creates and uses the port
    portWorkers,     \* the workers the port's CalculateBatch has started
    \* ---- ValidationAbility.Validate ----
    vaRules,         \* va.validationRules
    vaValue,         \* the value handed to Validate
    vaPc,            \* position of the goroutine that adds rules and validates
    vaPos,           \* position of Validate's range loop (1-based)
    vaRet,           \* what Validate returned
    vaEvals,         \* history: the validateRule calls of the Validate call, as
                     \*          the positions and the errors they returned
    \* ---- the message handlers' Handle ----
    hKind,           \* the handler whose Handle is called
    hData,           \* message.Data["answersheet_id"]
    hPc,             \* position of the goroutine inside Handle
    hRequests,       \* the calculation requests the handler has converted
    hRet,            \* what Handle returned
    hOps,            \* history: the collaborator operations and the CalculateBatch
                     \*          call Handle has made, with their outcomes
    hStore,          \* what has been persisted
    \* ---- concurrent Calculate calls on one adapter ----
    cReq,            \* the request of each Calculate call
    cPc,             \* position of each goroutine that calls Calculate
    cRule,           \* the rule each call has built
    cOut,            \* what each call returned
    \* ---- the two report handlers on one message ----
    reportInput,     \* the message, the collaborators' data and answers
    reportRun,       \* each report handler's position, return and saved report
    \* ---- the two validation services on one request ----
    modes,           \* the request, the metadata fetch and each service's return
    \* ---- the database registry ----
    registry,        \* the Registry: configs, connections, initialized
    \* ---- the apiserver container ----
    container,       \* the Container: its modules and its initialized flag
    \* ---- the questionnaire repository ----
    repo,            \* the questionnaire collection and the last call's result
    \* ---- the questionnaire's version service ----
    version          \* the questionnaire and the last call's result

batchVars == <<requests, maxConcurrency, opc, spawned, sent, taskChan, taskClosed,
               resultChan, results, collected, firstErr, ret, wpc, wtask,
               calcCount, takeCount, firstHard, outOfOrder, errEarly>>

chainVars == <<handlers, muWriter, muReaders, tpc, nested, adding, message, local,
               idx, perr, nextHandler, nextMessage, effects, invoked, registered,
               regAtCopy>>

serialVars == <<serialRequests, spc, serialIndex, serialResults, serialRet,
                serialCalls>>

validationVars == <<svc, semaphore, req, vpc, vpos, gpc, wg, closer, errorChan,
                    errors, vret, cancelled, evalCount, evalOutOfOrder,
                    fetchLog, testeeCount>>

calculateVars == <<callRequest, callOut>>

factoryVars == <<portArgs, port, portPc, portWorkers>>

\* the variables of the parts of the model that follow the calculation port
abilityVars == <<vaRules, vaValue, vaPc, vaPos, vaRet, vaEvals>>

handleVars == <<hKind, hData, hPc, hRequests, hRet, hOps, hStore>>

callsVars == <<cReq, cPc, cRule, cOut>>

reportVars == <<reportInput, reportRun>>

\* the variables of the report comparison, the registry, the container, the
\* repository and the version service
lastVars == <<reportVars, modes, registry, container, repo, version>>

laterVars == <<factoryVars, abilityVars, handleVars, callsVars, lastVars>>

\* the variables of the calculation port, the handler chain and the
\* validation services, and those of the parts that follow the handlers
earlierVars == <<batchVars, chainVars, serialVars, validationVars, calculateVars,
                 lastVars>>

\* the variables of every part up to the concurrent Calculate calls
settledVars == <<batchVars, chainVars, serialVars, validationVars, calculateVars,
                 factoryVars, abilityVars, handleVars, callsVars>>

vars == <<batchVars, chainVars, serialVars, validationVars, calculateVars,
          laterVars>>

(***************************************************************************)
(* Values.                                                                 *)
(***************************************************************************)
\* a nil *CalculationRequest
NilRequest == [isNil |-> TRUE, id |-> 0]

\* a request with the caller-assigned id k
Request(k) == [isNil |-> FALSE, id |-> k]

\* a nil *CalculationResult
NilResult == [isNil |-> TRUE, id |-> 0]

\* the nil error
NoErr == [isErr |-> FALSE, index |-> -1, cause |-> ""]

\* fmt.Errorf("... 任务 %d: %w", index, err)
WrapIndex(index, cause) == [isErr |-> TRUE, index |-> index, cause |-> cause]

\* the task of a worker that holds none
NoTask == [index |-> -1, request |-> NilRequest]

\* the value of ret before CalculateBatch has returned
NotReturned == [returned |-> FALSE, results |-> <<>>, isNilSlice |-> TRUE, err |-> NoErr]

Workers == 0 .. (MaxConcurrency - 1)

\* the batches of length n: each element is nil or a request; the caller
\* assigns the ids, unique within the batch, in ascending or in descending
\* order of position
Batches(n) ==
    { [i \in 1 .. n |-> IF i \in nils
                        THEN NilRequest
                        ELSE Request(IF descending THEN n + 1 - i ELSE i)] :
        nils \in SUBSET (1 .. n), descending \in BOOLEAN }

(***************************************************************************)
(* Calculate: a Go-level error for a nil request only; the result echoes   *)
(* the request's id.                                                       *)
(***************************************************************************)
Calculate(request) ==
    IF request.isNil
    THEN [result |-> NilResult, err |-> "nil request"]
    ELSE [result |-> [isNil |-> FALSE, id |-> request.id], err |-> ""]

(***************************************************************************)
(* HandlerChain: AddHandler and Process.                                   *)
(***************************************************************************)
Threads == 1 .. MaxThreads

\* no goroutine holds the write lock
NoThread == 0

\* the value of perr before Process has returned
NotProcessed == [returned |-> FALSE, isErr |-> FALSE, handler |-> <<>>]

\* handler.Name(): handlers are numbered in the order they are created and
\* named after their number, as in fmt.Sprintf("handler_%d", i)
Name(handler) == <<"handler", handler>>

\* fmt.Errorf("处理器 %s 执行失败: %w", handler.Name(), err)
WrapName(handler) == [returned |-> TRUE, isErr |-> TRUE, handler |-> Name(handler)]

Range(seq) == { seq[i] : i \in 1 .. Len(seq) }

\* chain := &HandlerChain{}
NewHandlerChain ==
    /\ handlers = <<>>
    /\ muWriter = NoThread
    /\ muReaders = {}
    /\ tpc = [t \in Threads |-> "idle"]
    /\ nested = [t \in Threads |-> FALSE]
    /\ adding = [t \in Threads |-> 0]
    /\ message = [t \in Threads |-> 0]
    /\ local = [t \in Threads |-> <<>>]
    /\ idx = [t \in Threads |-> 1]
    /\ perr = [t \in Threads |-> NotProcessed]
    /\ nextHandler = 0
    /\ nextMessage = 0
    /\ effects = {}
    /\ invoked = [t \in Threads |-> <<>>]
    /\ registered = <<>>
    /\ regAtCopy = [t \in Threads |-> <<>>]

\* no HandlerChain is in use
ChainParked ==
    /\ handlers = <<>>
    /\ muWriter = NoThread
    /\ muReaders = {}
    /\ tpc = <<>>
    /\ nested = <<>>
    /\ adding = <<>>
    /\ message = <<>>
    /\ local = <<>>
    /\ idx = <<>>
    /\ perr = <<>>
    /\ nextHandler = 0
    /\ nextMessage = 0
    /\ effects = {}
    /\ invoked = <<>>
    /\ registered = <<>>
    /\ regAtCopy = <<>>

\* a goroutine calls hc.AddHandler(handler) with a new handler
CallAddHandler(t) ==
    /\ tpc[t] = "idle"
    /\ nextHandler < MaxHandlers
    /\ nextHandler' = nextHandler + 1
    /\ adding' = [adding EXCEPT ![t] = nextHandler + 1]
    /\ nested' = [nested EXCEPT ![t] = FALSE]
    /\ tpc' = [tpc EXCEPT ![t] = "add_lock"]
    /\ UNCHANGED <<handlers, muWriter, muReaders, message, local, idx, perr,
                   nextMessage, effects, invoked, registered, regAtCopy>>
    /\ UNCHANGED <<batchVars, serialVars, validationVars, calculateVars, laterVars>>

\* a handler that is executing calls hc.AddHandler(handler) with a new handler
HandlerCallsAddHandler(t) ==
    /\ tpc[t] = "handle"
    /\ nextHandler < MaxHandlers
    /\ nextHandler' = nextHandler + 1
    /\ adding' = [adding EXCEPT ![t] = nextHandler + 1]
    /\ nested' = [nested EXCEPT ![t] = TRUE]
    /\ tpc' = [tpc EXCEPT ![t] = "add_lock"]
    /\ UNCHANGED <<handlers, muWriter, muReaders, message, local, idx, perr,
                   nextMessage, effects, invoked, registered, regAtCopy>>
    /\ UNCHANGED <<batchVars, serialVars, validationVars, calculateVars, laterVars>>

\* hc.mu.Lock(): granted when no goroutine holds the lock for writing or reading
AddHandlerLock(t) ==
    /\ tpc[t] = "add_lock"
    /\ muWriter = NoThread
    /\ muReaders = {}
    /\ muWriter' = t
    /\ tpc' = [tpc EXCEPT ![t] = "add_append"]
    /\ UNCHANGED <<handlers, muReaders, nested, adding, message, local, idx, perr,
                   nextHandler, nextMessage, effects, invoked, registered,
                   regAtCopy>>
    /\ UNCHANGED <<batchVars, serialVars, validationVars, calculateVars, laterVars>>

\* hc.handlers = append(hc.handlers, handler), then the deferred hc.mu.Unlock():
\* AddHandler returns, to the handler that called it or to the goroutine
AddHandlerAppend(t) ==
    /\ tpc[t] = "add_append"
    /\ handlers' = Append(handlers, adding[t])
    /\ registered' = Append(registered, adding[t])
    /\ muWriter' = NoThread
    /\ tpc' = [tpc EXCEPT ![t] = IF nested[t] THEN "handle" ELSE "idle"]
    /\ nested' = [nested EXCEPT ![t] = FALSE]
    /\ adding' = [adding EXCEPT ![t] = 0]
    /\ UNCHANGED <<muReaders, message, local, idx, perr, nextHandler,
                   nextMessage, effects, invoked, regAtCopy>>
    /\ UNCHANGED <<batchVars, serialVars, validationVars, calculateVars, laterVars>>

\* a goroutine calls hc.Process(ctx, message) with a new message
CallProcess(t) ==
    /\ tpc[t] = "idle"
    /\ nextMessage < MaxMessages
    /\ nextMessage' = nextMessage + 1
    /\ message' = [message EXCEPT ![t] = nextMessage + 1]
    /\ local' = [local EXCEPT ![t] = <<>>]
    /\ idx' = [idx EXCEPT ![t] = 1]
    /\ perr' = [perr EXCEPT ![t] = NotProcessed]
    /\ invoked' = [invoked EXCEPT ![t] = <<>>]
    /\ regAtCopy' = [regAtCopy EXCEPT ![t] = <<>>]
    /\ tpc' = [tpc EXCEPT ![t] = "rlock"]
    /\ UNCHANGED <<handlers, muWriter, muReaders, nested, adding, nextHandler,
                   effects, registered>>
    /\ UNCHANGED <<batchVars, serialVars, validationVars, calculateVars, laterVars>>

\* hc.mu.RLock(): granted when no goroutine holds the write lock. (A
\* sync.RWMutex may also hold a new reader back while a writer waits; every run
\* of that lock is a run of this one.)
ProcessRLock(t) ==
    /\ tpc[t] = "rlock"
    /\ muWriter = NoThread
    /\ muReaders' = muReaders \cup {t}
    /\ tpc' = [tpc EXCEPT ![t] = "copy"]
    /\ UNCHANGED <<handlers, muWriter, nested, adding, message, local, idx, perr,
                   nextHandler, nextMessage, effects, invoked, registered,
                   regAtCopy>>
    /\ UNCHANGED <<batchVars, serialVars, validationVars, calculateVars, laterVars>>

\* a variant of ProcessCopy: make([]Handler, 0, len(hc.handlers)), so that copy
\* copies nothing
ProcessCopyNothing(t) ==
    /\ tpc[t] = "copy"
    /\ local' = [local EXCEPT ![t] = <<>>]
    /\ regAtCopy' = [regAtCopy EXCEPT ![t] = registered]
    /\ muReaders' = muReaders \ {t}
    /\ tpc' = [tpc EXCEPT ![t] = "loop"]
    /\ UNCHANGED <<handlers, muWriter, nested, adding, message, idx, perr,
                   nextHandler, nextMessage, effects, invoked, registered>>
    /\ UNCHANGED <<batchVars, serialVars, validationVars, calculateVars, laterVars>>

\* a variant of ProcessCopy: the read lock is not released before the loop
ProcessCopyKeepRLock(t) ==
    /\ tpc[t] = "copy"
    /\ local' = [local EXCEPT ![t] = handlers]
    /\ regAtCopy' = [regAtCopy EXCEPT ![t] = registered]
    /\ tpc' = [tpc EXCEPT ![t] = "loop"]
    /\ UNCHANGED <<handlers, muWriter, muReaders, nested, adding, message, idx,
                   perr, nextHandler, nextMessage, effects, invoked, registered>>
    /\ UNCHANGED <<batchVars, serialVars, validationVars, calculateVars, laterVars>>

\* handlers := make([]Handler, len(hc.handlers)); copy(handlers, hc.handlers);
\* hc.mu.RUnlock()
ProcessCopy(t) ==
    /\ tpc[t] = "copy"
    /\ local' = [local EXCEPT ![t] = handlers]
    /\ regAtCopy' = [regAtCopy EXCEPT ![t] = registered]
    /\ muReaders' = muReaders \ {t}
    /\ tpc' = [tpc EXCEPT ![t] = "loop"]
    /\ UNCHANGED <<handlers, muWriter, nested, adding, message, idx, perr,
                   nextHandler, nextMessage, effects, invoked, registered>>
    /\ UNCHANGED <<batchVars, serialVars, validationVars, calculateVars, laterVars>>

\* a variant of ProcessInvoke: the loop ranges over hc.handlers, not the copy
ProcessInvokeShared(t) ==
    /\ tpc[t] = "loop"
    /\ idx[t] <= Len(handlers)
    /\ invoked' = [invoked EXCEPT ![t] = Append(@, handlers[idx[t]])]
    /\ tpc' = [tpc EXCEPT ![t] = "handle"]
    /\ UNCHANGED <<handlers, muWriter, muReaders, nested, adding, message, local,
                   idx, perr, nextHandler, nextMessage, effects, registered,
                   regAtCopy>>
    /\ UNCHANGED <<batchVars, serialVars, validationVars, calculateVars, laterVars>>

\* for _, handler := range handlers { handler.Handle(ctx, message) ...
ProcessInvoke(t) ==
    /\ tpc[t] = "loop"
    /\ idx[t] <= Len(local[t])
    /\ invoked' = [invoked EXCEPT ![t] = Append(@, local[t][idx[t]])]
    /\ tpc' = [tpc EXCEPT ![t] = "handle"]
    /\ UNCHANGED <<handlers, muWriter, muReaders, nested, adding, message, local,
                   idx, perr, nextHandler, nextMessage, effects, registered,
                   regAtCopy>>
    /\ UNCHANGED <<batchVars, serialVars, validationVars, calculateVars, laterVars>>

\* handler.Handle returns nil: its side effect is committed, the loop goes on
HandleOk(t) ==
    /\ tpc[t] = "handle"
    /\ effects' = effects \cup {<<invoked[t][Len(invoked[t])], message[t]>>}
    /\ idx' = [idx EXCEPT ![t] = @ + 1]
    /\ tpc' = [tpc EXCEPT ![t] = "loop"]
    /\ UNCHANGED <<handlers, muWriter, muReaders, nested, adding, message, local,
                   perr, nextHandler, nextMessage, invoked, registered, regAtCopy>>
    /\ UNCHANGED <<batchVars, serialVars, validationVars, calculateVars, laterVars>>

\* a variant of HandleFail: the error is only logged and the loop goes on
HandleFailContinue(t) ==
    /\ tpc[t] = "handle"
    /\ idx' = [idx EXCEPT ![t] = @ + 1]
    /\ tpc' = [tpc EXCEPT ![t] = "loop"]
    /\ UNCHANGED <<handlers, muWriter, muReaders, nested, adding, message, local,
                   perr, nextHandler, nextMessage, effects, invoked, registered,
                   regAtCopy>>
    /\ UNCHANGED <<batchVars, serialVars, validationVars, calculateVars, laterVars>>

\* handler.Handle returns an error:
\* return fmt.Errorf("处理器 %s 执行失败: %w", handler.Name(), err)
HandleFail(t) ==
    /\ tpc[t] = "handle"
    /\ perr' = [perr EXCEPT ![t] = WrapName(invoked[t][Len(invoked[t])])]
    /\ tpc' = [tpc EXCEPT ![t] = "idle"]
    /\ UNCHANGED <<handlers, muWriter, muReaders, nested, adding, message, local,
                   idx, nextHandler, nextMessage, effects, invoked, registered,
                   regAtCopy>>
    /\ UNCHANGED <<batchVars, serialVars, validationVars, calculateVars, laterVars>>

\* the range loop is over: return nil
ProcessReturnNil(t) ==
    /\ tpc[t] = "loop"
    /\ idx[t] > Len(local[t])
    /\ perr' = [perr EXCEPT ![t] = [returned |-> TRUE, isErr |-> FALSE, handler |-> <<>>]]
    /\ tpc' = [tpc EXCEPT ![t] = "idle"]
    /\ UNCHANGED <<handlers, muWriter, muReaders, nested, adding, message, local,
                   idx, nextHandler, nextMessage, effects, invoked, registered,
                   regAtCopy>>
    /\ UNCHANGED <<batchVars, serialVars, validationVars, calculateVars, laterVars>>

NextChain ==
    \/ \E t \in Threads : CallAddHandler(t)
    \/ \E t \in Threads : HandlerCallsAddHandler(t)
    \/ \E t \in Threads : AddHandlerLock(t)
    \/ \E t \in Threads : AddHandlerAppend(t)
    \/ \E t \in Threads : CallProcess(t)
    \/ \E t \in Threads : ProcessRLock(t)
    \/ \E t \in Threads : ProcessCopy(t)
    \/ \E t \in Threads : ProcessInvoke(t)
    \/ \E t \in Threads : HandleOk(t)
    \/ \E t \in Threads : HandleFail(t)
    \/ \E t \in Threads : ProcessReturnNil(t)

(***************************************************************************)
(* Values of the validation services.                                      *)
(***************************************************************************)
Callers == 1 .. MaxCalls

\* the nil error
NilError == [kind |-> "nil", cause |-> "", code |-> 0, count |-> 0]

\* the error ValidateAnswer returns for an invalid answer
AnswerError(answer) ==
    [kind |-> "answer", cause |-> "", code |-> answer.questionCode, count |-> 0]

\* the error ValidateSubmitRequest returns for invalid testee metadata
TesteeError == [kind |-> "testee", cause |-> "", code |-> 0, count |-> 0]

\* fmt.Errorf("获取问卷验证信息失败: %w", err)
FetchFailed == [kind |-> "fetch", cause |-> "not found", code |-> 0, count |-> 0]

\* fmt.Errorf("答卷验证失败: %w", err)
ValidationFailed(err) ==
    [kind |-> "validation", cause |-> err.kind, code |-> err.code, count |-> 0]

\* fmt.Errorf("并发验证失败，错误数量: %d, 首个错误: %v", len(errors), errors[0])
ConcurrentFailed(errs) ==
    [kind |-> "concurrent", cause |-> errs[1].kind, code |-> errs[1].code,
     count |-> Len(errs)]

\* the value of vret before ValidateAnswersheet has returned
NotValidated == [returned |-> FALSE, err |-> NilError]

Returned(err) == [returned |-> TRUE, err |-> err]

\* the request of a goroutine that has not called ValidateAnswersheet
NoRequest == [answers |-> <<>>]

\* the answer sheets of n answers: an answer is valid or not; the answer at
\* position i answers question i
Sheets(n) ==
    { [i \in 1 .. n |-> [questionCode |-> i, valid |-> i \notin invalid]] :
        invalid \in SUBSET (1 .. n) }

\* ValidateAnswer / validateSingleAnswer: the verdict on one answer
ValidateAnswer(answer) ==
    IF answer.valid THEN NilError ELSE AnswerError(answer)

\* the number of answers handed to the service by the callers in cs
RECURSIVE AnswerTotal(_)
AnswerTotal(cs) ==
    IF cs = {}
    THEN 0
    ELSE LET c == CHOOSE x \in cs : TRUE
         IN  Len(req[c].answers) + AnswerTotal(cs \ {c})

\* NewSequentialService(questionnaireService)
NewSequentialService == [strategy |-> "sequential", maxConcurrency |-> 0]

\* NewConcurrentService(questionnaireService, maxConcurrency)
NewConcurrentService(mc) == [strategy |-> "concurrent", maxConcurrency |-> mc]

\* no goroutine has called the service
ServiceUnused ==
    /\ semaphore = 0
    /\ req = [c \in Callers |-> NoRequest]
    /\ vpc = [c \in Callers |-> "idle"]
    /\ vpos = [c \in Callers |-> 0]
    /\ gpc = [c \in Callers |-> <<>>]
    /\ wg = [c \in Callers |-> 0]
    /\ closer = [c \in Callers |-> "unstarted"]
    /\ errorChan = [c \in Callers |-> <<>>]
    /\ errors = [c \in Callers |-> <<>>]
    /\ vret = [c \in Callers |-> NotValidated]
    /\ cancelled = [c \in Callers |-> FALSE]
    /\ evalCount = [c \in Callers |-> <<>>]
    /\ evalOutOfOrder = [c \in Callers |-> FALSE]
    /\ fetchLog = [c \in Callers |-> <<>>]
    /\ testeeCount = [c \in Callers |-> 0]

\* no validation service is in use
ValidationParked ==
    /\ svc = NewSequentialService
    /\ vpc = [c \in Callers |-> "parked"]
    /\ semaphore = 0
    /\ req = [c \in Callers |-> NoRequest]
    /\ vpos = [c \in Callers |-> 0]
    /\ gpc = [c \in Callers |-> <<>>]
    /\ wg = [c \in Callers |-> 0]
    /\ closer = [c \in Callers |-> "unstarted"]
    /\ errorChan = [c \in Callers |-> <<>>]
    /\ errors = [c \in Callers |-> <<>>]
    /\ vret = [c \in Callers |-> NotValidated]
    /\ cancelled = [c \in Callers |-> FALSE]
    /\ evalCount = [c \in Callers |-> <<>>]
    /\ evalOutOfOrder = [c \in Callers |-> FALSE]
    /\ fetchLog = [c \in Callers |-> <<>>]
    /\ testeeCount = [c \in Callers |-> 0]

\* no serial CalculateBatch call is in progress
SerialParked ==
    /\ serialRequests = <<>>
    /\ spc = "parked"
    /\ serialIndex = 0
    /\ serialResults = <<>>
    /\ serialRet = NotReturned
    /\ serialCalls = <<>>

\* the value of callOut before Calculate has returned
NotCalled == [returned |-> FALSE, isNilResult |-> TRUE, id |-> 0, strategy |-> "",
              value |-> [num |-> 0, den |-> 1], error |-> "", err |-> ""]

\* no single Calculate call is made
CalculateParked ==
    /\ callRequest = NilRequest
    /\ callOut = NotCalled

\* the arguments before CreateCalculationPort is called
NoArgs == [adapterType |-> "", maxConcurrency |-> <<>>]

\* the port before CreateCalculationPort has returned
NoPort == [adapterType |-> "", maxConcurrency |-> 0]

\* the adapter factory is not in use
FactoryParked ==
    /\ portArgs = NoArgs
    /\ port = NoPort
    /\ portPc = "parked"
    /\ portWorkers = 0

\* the nil error of Validate and validateRule
NoRuleError == [kind |-> "nil", ruleType |-> "", targetValue |-> 0]

\* the value of vaRet before Validate has returned
NotValidatedYet == [returned |-> FALSE, err |-> NoRuleError]

\* no ValidationAbility is in use
AbilityParked ==
    /\ vaRules = <<>>
    /\ vaValue = <<>>
    /\ vaPc = "parked"
    /\ vaPos = 0
    /\ vaRet = NotValidatedYet
    /\ vaEvals = <<>>

\* the value of hRet before Handle has returned
NotHandled == [returned |-> FALSE, err |-> ""]

\* message.Data without the key answersheet_id
MissingField == [present |-> FALSE, isString |-> FALSE, text |-> ""]

\* no handler's Handle is called
HandleParked ==
    /\ hKind = ""
    /\ hData = MissingField
    /\ hPc = "parked"
    /\ hRequests = <<>>
    /\ hRet = NotHandled
    /\ hOps = <<>>
    /\ hStore = <<>>

\* the goroutines that call Calculate on one adapter
Calculators == 1 .. MaxCalculations

\* the rule of a call that has built none
NoRule == [strategyName |-> "", precision |-> {}, roundingMode |-> {}]

\* no goroutine calls Calculate concurrently with another
CallsParked ==
    /\ cReq = <<>>
    /\ cPc = <<>>
    /\ cRule = <<>>
    /\ cOut = <<>>

\* the two report handlers are not compared
ReportParked ==
    /\ reportInput = <<>>
    /\ reportRun = <<>>

\* the two validation services are not compared
ModesParked == modes = <<>>

\* no Registry is in use
RegistryParked == registry = <<>>

\* no Container is in use
ContainerParked == container = <<>>

\* no questionnaire repository is in use
RepoParked == repo = <<>>

\* no version service is in use
VersionParked == version = <<>>

\* none of the parts that follow the concurrent Calculate calls is in use
LastParked ==
    /\ ReportParked
    /\ ModesParked
    /\ RegistryParked
    /\ ContainerParked
    /\ RepoParked
    /\ VersionParked

\* none of the parts that follow the calculation port is in use
LaterParked ==
    FactoryParked /\ AbilityParked /\ HandleParked /\ CallsParked /\ LastParked

\* no CalculateBatch call is in progress
BatchParked ==
    /\ requests = <<>>
    /\ maxConcurrency = 1
    /\ opc = "parked"
    /\ spawned = 0
    /\ sent = 0
    /\ taskChan = <<>>
    /\ taskClosed = FALSE
    /\ resultChan = <<>>
    /\ results = <<>>
    /\ collected = 0
    /\ firstErr = NoErr
    /\ ret = NotReturned
    /\ wpc = [w \in Workers |-> "unstarted"]
    /\ wtask = [w \in Workers |-> NoTask]
    /\ calcCount = <<>>
    /\ takeCount = <<>>
    /\ firstHard = -1
    /\ outOfOrder = FALSE
    /\ errEarly = FALSE

\* a new handler chain, used by MaxThreads goroutines
InitChain ==
    NewHandlerChain /\ BatchParked /\ SerialParked /\ ValidationParked
        /\ CalculateParked /\ LaterParked

SpecChain == InitChain /\ [][NextChain]_vars


(***************************************************************************)
(* ConcurrentCalculationAdapter.CalculateBatch: the calling goroutine.     *)
(***************************************************************************)
\* CalculateBatch is called on an adapter with maxConcurrency >= 1
CallCalculateBatch ==
    /\ \E n \in 0 .. MaxBatch : requests \in Batches(n)
    /\ maxConcurrency \in 1 .. MaxConcurrency
    /\ opc = "start"
    /\ spawned = 0
    /\ sent = 0
    /\ taskChan = <<>>
    /\ taskClosed = FALSE
    /\ resultChan = <<>>
    /\ results = <<>>
    /\ collected = 0
    /\ firstErr = NoErr
    /\ ret = NotReturned
    /\ wpc = [w \in Workers |-> "unstarted"]
    /\ wtask = [w \in Workers |-> NoTask]
    /\ calcCount = [i \in 0 .. (Len(requests) - 1) |-> 0]
    /\ takeCount = [i \in 0 .. (Len(requests) - 1) |-> 0]
    /\ firstHard = -1
    /\ outOfOrder = FALSE
    /\ errEarly = FALSE

\* a variant of the empty-batch return that returns a nil slice
ReturnEmptyNil ==
    /\ opc = "start"
    /\ Len(requests) = 0
    /\ ret' = [returned |-> TRUE, results |-> <<>>, isNilSlice |-> TRUE, err |-> NoErr]
    /\ opc' = "done"
    /\ UNCHANGED <<requests, maxConcurrency, spawned, sent, taskChan, taskClosed,
                   resultChan, results, collected, firstErr, wpc, wtask,
                   calcCount, takeCount, firstHard, outOfOrder, errEarly>>
    /\ UNCHANGED <<chainVars, serialVars, validationVars, calculateVars, laterVars>>

\* if len(requests) == 0 { return []*CalculationResult{}, nil }
ReturnEmpty ==
    /\ opc = "start"
    /\ Len(requests) = 0
    /\ ret' = [returned |-> TRUE, results |-> <<>>, isNilSlice |-> FALSE, err |-> NoErr]
    /\ opc' = "done"
    /\ UNCHANGED <<requests, maxConcurrency, spawned, sent, taskChan, taskClosed,
                   resultChan, results, collected, firstErr, wpc, wtask,
                   calcCount, takeCount, firstHard, outOfOrder, errEarly>>
    /\ UNCHANGED <<chainVars, serialVars, validationVars, calculateVars, laterVars>>

\* taskChan := make(chan ..., len(requests)); resultChan := make(chan ..., len(requests))
MakeChannels ==
    /\ opc = "start"
    /\ Len(requests) > 0
    /\ taskChan' = <<>>
    /\ resultChan' = <<>>
    /\ opc' = IF 0 < maxConcurrency THEN "spawn" ELSE "send"
    /\ UNCHANGED <<requests, maxConcurrency, spawned, sent, taskClosed, results,
                   collected, firstErr, ret, wpc, wtask, calcCount, takeCount,
                   firstHard, outOfOrder, errEarly>>
    /\ UNCHANGED <<chainVars, serialVars, validationVars, calculateVars, laterVars>>

\* for i := 0; i < a.maxConcurrency; i++ { go func(workerID int) {...}(i) }
StartWorker ==
    /\ opc = "spawn"
    /\ spawned < maxConcurrency
    /\ wpc' = [wpc EXCEPT ![spawned] = "range"]
    /\ spawned' = spawned + 1
    /\ opc' = IF spawned + 1 < maxConcurrency THEN "spawn" ELSE "send"
    /\ UNCHANGED <<requests, maxConcurrency, sent, taskChan, taskClosed, resultChan,
                   results, collected, firstErr, ret, wtask, calcCount,
                   takeCount, firstHard, outOfOrder, errEarly>>
    /\ UNCHANGED <<chainVars, serialVars, validationVars, calculateVars, laterVars>>

\* the caller puts (i, requests[i]) on taskChan, in request order
SendTask ==
    /\ opc = "send"
    /\ sent < Len(requests)
    /\ Len(taskChan) < Len(requests)
    /\ taskChan' = Append(taskChan, [index |-> sent, request |-> requests[sent + 1]])
    /\ sent' = sent + 1
    /\ opc' = IF sent + 1 < Len(requests) THEN "send" ELSE "close"
    /\ UNCHANGED <<requests, maxConcurrency, spawned, taskClosed, resultChan,
                   results, collected, firstErr, ret, wpc, wtask, calcCount,
                   takeCount, firstHard, outOfOrder, errEarly>>
    /\ UNCHANGED <<chainVars, serialVars, validationVars, calculateVars, laterVars>>

\* close(taskChan); results := make([]*CalculationResult, len(requests))
CloseTaskChan ==
    /\ opc = "close"
    /\ taskClosed' = TRUE
    /\ results' = [i \in 1 .. Len(requests) |-> NilResult]
    /\ opc' = "collect"
    /\ UNCHANGED <<requests, maxConcurrency, spawned, sent, taskChan, resultChan,
                   collected, firstErr, ret, wpc, wtask, calcCount, takeCount,
                   firstHard, outOfOrder, errEarly>>
    /\ UNCHANGED <<chainVars, serialVars, validationVars, calculateVars, laterVars>>

\* a variant of CollectResult: the caller stops receiving at the first hard error
CollectResultFailFast ==
    /\ opc = "collect"
    /\ resultChan # <<>>
    /\ LET r == Head(resultChan) IN
        /\ resultChan' = Tail(resultChan)
        /\ results' = [results EXCEPT ![r.index + 1] = r.result]
        /\ firstErr' = IF r.err # "" /\ ~firstErr.isErr
                       THEN WrapIndex(r.index, r.err)
                       ELSE firstErr
        /\ firstHard' = IF r.err # "" /\ firstHard = -1 THEN r.index ELSE firstHard
        /\ outOfOrder' = (outOfOrder \/ r.index # collected)
        /\ errEarly' = IF r.err # "" /\ firstHard = -1
                       THEN \E i \in DOMAIN calcCount : calcCount[i] = 0
                       ELSE errEarly
        /\ opc' = IF collected + 1 < Len(requests) /\ r.err = ""
                  THEN "collect" ELSE "return"
    /\ collected' = collected + 1
    /\ UNCHANGED <<requests, maxConcurrency, spawned, sent, taskChan, taskClosed,
                   ret, wpc, wtask, calcCount, takeCount>>
    /\ UNCHANGED <<chainVars, serialVars, validationVars, calculateVars, laterVars>>

\* the caller receives one (index, result, err): the result goes to position
\* index, the first hard error is remembered wrapped with its index, and the
\* caller goes on receiving until it has one result per request
CollectResult ==
    /\ opc = "collect"
    /\ resultChan # <<>>
    /\ LET r == Head(resultChan) IN
        /\ resultChan' = Tail(resultChan)
        /\ results' = [results EXCEPT ![r.index + 1] = r.result]
        /\ firstErr' = IF r.err # "" /\ ~firstErr.isErr
                       THEN WrapIndex(r.index, r.err)
                       ELSE firstErr
        /\ firstHard' = IF r.err # "" /\ firstHard = -1 THEN r.index ELSE firstHard
        /\ outOfOrder' = (outOfOrder \/ r.index # collected)
        /\ errEarly' = IF r.err # "" /\ firstHard = -1
                       THEN \E i \in DOMAIN calcCount : calcCount[i] = 0
                       ELSE errEarly
    /\ collected' = collected + 1
    /\ opc' = IF collected + 1 < Len(requests) THEN "collect" ELSE "return"
    /\ UNCHANGED <<requests, maxConcurrency, spawned, sent, taskChan, taskClosed,
                   ret, wpc, wtask, calcCount, takeCount>>
    /\ UNCHANGED <<chainVars, serialVars, validationVars, calculateVars, laterVars>>

\* return nil, firstErr  or  return results, nil
ReturnBatch ==
    /\ opc = "return"
    /\ ret' = IF firstErr.isErr
              THEN [returned |-> TRUE, results |-> <<>>, isNilSlice |-> TRUE,
                    err |-> firstErr]
              ELSE [returned |-> TRUE, results |-> results, isNilSlice |-> FALSE,
                    err |-> NoErr]
    /\ opc' = "done"
    /\ UNCHANGED <<requests, maxConcurrency, spawned, sent, taskChan, taskClosed,
                   resultChan, results, collected, firstErr, wpc, wtask,
                   calcCount, takeCount, firstHard, outOfOrder, errEarly>>
    /\ UNCHANGED <<chainVars, serialVars, validationVars, calculateVars, laterVars>>

(***************************************************************************)
(* The worker goroutines.                                                  *)
(***************************************************************************)
\* for task := range taskChan: a task is received
WorkerTake(w) ==
    /\ wpc[w] = "range"
    /\ taskChan # <<>>
    /\ wtask' = [wtask EXCEPT ![w] = Head(taskChan)]
    /\ taskChan' = Tail(taskChan)
    /\ takeCount' = [takeCount EXCEPT ![Head(taskChan).index] = @ + 1]
    /\ wpc' = [wpc EXCEPT ![w] = "calc"]
    /\ UNCHANGED <<requests, maxConcurrency, opc, spawned, sent, taskClosed,
                   resultChan, results, collected, firstErr, ret, calcCount,
                   firstHard, outOfOrder, errEarly>>
    /\ UNCHANGED <<chainVars, serialVars, validationVars, calculateVars, laterVars>>

\* for task := range taskChan: the channel is closed and empty, the loop ends
WorkerExit(w) ==
    /\ wpc[w] = "range"
    /\ taskChan = <<>>
    /\ taskClosed
    /\ wpc' = [wpc EXCEPT ![w] = "exited"]
    /\ UNCHANGED <<requests, maxConcurrency, opc, spawned, sent, taskChan,
                   taskClosed, resultChan, results, collected, firstErr, ret, wtask,
                   calcCount, takeCount, firstHard, outOfOrder, errEarly>>
    /\ UNCHANGED <<chainVars, serialVars, validationVars, calculateVars, laterVars>>

\* a variant of WorkerCalculate: the result is tagged with workerID instead of task.index
WorkerCalculateByWorkerID(w) ==
    /\ wpc[w] = "calc"
    /\ Len(resultChan) < Len(requests)
    /\ LET out == Calculate(wtask[w].request)
           item == [index |-> w,
                        result |-> out.result,
                        err |-> out.err]
       IN  resultChan' = Append(resultChan, item)
    /\ calcCount' = [calcCount EXCEPT ![wtask[w].index] = @ + 1]
    /\ wtask' = [wtask EXCEPT ![w] = NoTask]
    /\ wpc' = [wpc EXCEPT ![w] = "range"]
    /\ UNCHANGED <<requests, maxConcurrency, opc, spawned, sent, taskChan,
                   taskClosed, results, collected, firstErr, ret, takeCount,
                   firstHard, outOfOrder, errEarly>>
    /\ UNCHANGED <<chainVars, serialVars, validationVars, calculateVars, laterVars>>

\* a variant of WorkerCalculate: the result is put on resultChan twice
WorkerCalculateSendTwice(w) ==
    /\ wpc[w] = "calc"
    /\ Len(resultChan) + 1 < Len(requests) + 1
    /\ LET out == Calculate(wtask[w].request)
           item == [index |-> wtask[w].index,
                        result |-> out.result,
                        err |-> out.err]
       IN  resultChan' = Append(Append(resultChan, item), item)
    /\ calcCount' = [calcCount EXCEPT ![wtask[w].index] = @ + 1]
    /\ wtask' = [wtask EXCEPT ![w] = NoTask]
    /\ wpc' = [wpc EXCEPT ![w] = "range"]
    /\ UNCHANGED <<requests, maxConcurrency, opc, spawned, sent, taskChan,
                   taskClosed, results, collected, firstErr, ret, takeCount,
                   firstHard, outOfOrder, errEarly>>
    /\ UNCHANGED <<chainVars, serialVars, validationVars, calculateVars, laterVars>>

\* a variant of WorkerCalculate: the error of Calculate is not passed on
WorkerCalculateDropErr(w) ==
    /\ wpc[w] = "calc"
    /\ Len(resultChan) < Len(requests)
    /\ LET out == Calculate(wtask[w].request)
           item == [index |-> wtask[w].index,
                        result |-> out.result,
                        err |-> ""]
       IN  resultChan' = Append(resultChan, item)
    /\ calcCount' = [calcCount EXCEPT ![wtask[w].index] = @ + 1]
    /\ wtask' = [wtask EXCEPT ![w] = NoTask]
    /\ wpc' = [wpc EXCEPT ![w] = "range"]
    /\ UNCHANGED <<requests, maxConcurrency, opc, spawned, sent, taskChan,
                   taskClosed, results, collected, firstErr, ret, takeCount,
                   firstHard, outOfOrder, errEarly>>
    /\ UNCHANGED <<chainVars, serialVars, validationVars, calculateVars, laterVars>>

\* a variant of WorkerCalculate: a failed Calculate is tried a second time
WorkerCalculateRetry(w) ==
    /\ wpc[w] = "calc"
    /\ Len(resultChan) < Len(requests)
    /\ LET out == Calculate(wtask[w].request)
           item == [index |-> wtask[w].index,
                        result |-> out.result,
                        err |-> out.err]
       IN  resultChan' = Append(resultChan, item)
    /\ calcCount' = [calcCount EXCEPT ![wtask[w].index] = IF Calculate(wtask[w].request).err # "" THEN @ + 2 ELSE @ + 1]
    /\ wtask' = [wtask EXCEPT ![w] = NoTask]
    /\ wpc' = [wpc EXCEPT ![w] = "range"]
    /\ UNCHANGED <<requests, maxConcurrency, opc, spawned, sent, taskChan,
                   taskClosed, results, collected, firstErr, ret, takeCount,
                   firstHard, outOfOrder, errEarly>>
    /\ UNCHANGED <<chainVars, serialVars, validationVars, calculateVars, laterVars>>

\* a variant of WorkerCalculate: the goroutine ends after its first task
WorkerCalculateOnce(w) ==
    /\ wpc[w] = "calc"
    /\ Len(resultChan) < Len(requests)
    /\ LET out == Calculate(wtask[w].request)
           item == [index |-> wtask[w].index,
                        result |-> out.result,
                        err |-> out.err]
       IN  resultChan' = Append(resultChan, item)
    /\ calcCount' = [calcCount EXCEPT ![wtask[w].index] = @ + 1]
    /\ wtask' = [wtask EXCEPT ![w] = NoTask]
    /\ wpc' = [wpc EXCEPT ![w] = "exited"]
    /\ UNCHANGED <<requests, maxConcurrency, opc, spawned, sent, taskChan,
                   taskClosed, results, collected, firstErr, ret, takeCount,
                   firstHard, outOfOrder, errEarly>>
    /\ UNCHANGED <<chainVars, serialVars, validationVars, calculateVars, laterVars>>

\* result, err := a.Calculate(ctx, task.request)
\* resultChan <- struct{...}{task.index, result, err}
WorkerCalculate(w) ==
    /\ wpc[w] = "calc"
    /\ Len(resultChan) < Len(requests)
    /\ LET out == Calculate(wtask[w].request) IN
        resultChan' = Append(resultChan, [index |-> wtask[w].index,
                                          result |-> out.result,
                                          err |-> out.err])
    /\ calcCount' = [calcCount EXCEPT ![wtask[w].index] = @ + 1]
    /\ wtask' = [wtask EXCEPT ![w] = NoTask]
    /\ wpc' = [wpc EXCEPT ![w] = "range"]
    /\ UNCHANGED <<requests, maxConcurrency, opc, spawned, sent, taskChan,
                   taskClosed, results, collected, firstErr, ret, takeCount,
                   firstHard, outOfOrder, errEarly>>
    /\ UNCHANGED <<chainVars, serialVars, validationVars, calculateVars, laterVars>>

NextBatch ==
    \/ ReturnEmpty
    \/ MakeChannels
    \/ StartWorker
    \/ SendTask
    \/ CloseTaskChan
    \/ CollectResult
    \/ ReturnBatch
    \/ \E w \in Workers : WorkerTake(w)
    \/ \E w \in Workers : WorkerExit(w)
    \/ \E w \in Workers : WorkerCalculate(w)

\* one CalculateBatch call; the handler chain is not in use
InitBatch ==
    CallCalculateBatch /\ ChainParked /\ SerialParked /\ ValidationParked
        /\ CalculateParked /\ LaterParked

SpecBatch == InitBatch /\ [][NextBatch]_vars


\* while some goroutine can run, some goroutine eventually runs (the Go
\* scheduler); this asks less than fairness for each goroutine
FairSpecBatch ==
    /\ InitBatch
    /\ [][NextBatch]_vars
    /\ WF_vars(NextBatch)

(***************************************************************************)
(* Properties of the concurrent CalculateBatch.                            *)
(***************************************************************************)
\* request i (0-based) hard-fails: Calculate returns a Go-level error for it
HardFails(i) == Calculate(requests[i + 1]).err # ""

Indexes == 0 .. (Len(requests) - 1)

\* C1: a successful CalculateBatch of n >= 1 requests returns n results and the
\* i-th result is the one computed for the i-th request (it echoes that
\* request's id), whatever order the results arrived in.
C1_OrderPreserved ==
    (ret.returned /\ ~ret.err.isErr /\ Len(requests) >= 1) =>
        /\ Len(ret.results) = Len(requests)
        /\ \A i \in 1 .. Len(requests) :
              /\ ~ret.results[i].isNil
              /\ ret.results[i].id = requests[i].id

\* a successful batch whose results arrived out of request order and whose ids
\* are not in position order
C1_Witness ==
    /\ ret.returned
    /\ ~ret.err.isErr
    /\ Len(requests) >= 2
    /\ outOfOrder
    /\ requests[1].id > requests[2].id

\* C2: when CalculateBatch returns, no worker is calculating or holds a task,
\* no task is left on taskChan, and every task of the batch has been
\* calculated and its result received.
C2_ReturnsAfterAllProcessed ==
    (ret.returned /\ Len(requests) >= 1) =>
        /\ \A w \in Workers : wpc[w] # "calc" /\ wtask[w] = NoTask
        /\ taskChan = <<>>
        /\ resultChan = <<>>
        /\ collected = Len(requests)
        /\ \A i \in Indexes : calcCount[i] >= 1

\* a batch of several requests worked on by several workers has returned
C2_Witness ==
    /\ ret.returned
    /\ Len(requests) >= 2
    /\ maxConcurrency >= 2
    /\ \A i \in Indexes : calcCount[i] = 1

\* C3: a batch with a hard-failing request returns no results and the first
\* hard error received, wrapped with the index of its request; a batch without
\* one returns n results and a nil error; never a partial result slice.
C3_AllOrNothing ==
    (ret.returned /\ Len(requests) >= 1) =>
        /\ ret.err.isErr <=> (\E i \in Indexes : HardFails(i))
        /\ ret.err.isErr =>
              /\ ret.isNilSlice
              /\ ret.results = <<>>
              /\ firstHard \in Indexes
              /\ ret.err.index = firstHard
              /\ HardFails(ret.err.index)
              /\ ret.err.cause = Calculate(requests[ret.err.index + 1]).err
        /\ ~ret.err.isErr =>
              /\ ~ret.isNilSlice
              /\ Len(ret.results) = Len(requests)

\* two requests hard-fail and the error returned is the one received first,
\* which is not the one of the lowest index
C3_Witness ==
    /\ ret.returned
    /\ ret.err.isErr
    /\ Len(requests) >= 2
    /\ HardFails(0)
    /\ ret.err.index > 0

\* C4: a hard failure cancels nothing: when a failed batch returns, every
\* request of the batch has been calculated.
C4_NoEarlyCancellation ==
    (ret.returned /\ ret.err.isErr) =>
        \A i \in Indexes : calcCount[i] >= 1

\* the first hard error reached the caller while another request had not been
\* calculated yet, and the batch has returned
C4_Witness ==
    /\ ret.returned
    /\ ret.err.isErr
    /\ errEarly
    /\ \E i \in Indexes : ~HardFails(i)

\* C5: every task is received from taskChan at most once and calculated at
\* most once, and exactly once by the time the batch returns.
C5_ExactlyOnce ==
    /\ \A i \in Indexes :
          /\ takeCount[i] <= 1
          /\ calcCount[i] <= takeCount[i]
    /\ (ret.returned /\ Len(requests) >= 1) =>
          \A i \in Indexes : takeCount[i] = 1 /\ calcCount[i] = 1

\* several workers competed for the tasks of a batch with a hard-failing
\* request, and the batch has returned
C5_Witness ==
    /\ ret.returned
    /\ Len(requests) >= 2
    /\ maxConcurrency >= 2
    /\ outOfOrder
    /\ \E i \in Indexes : HardFails(i)

\* CalculateBatch has returned n results and a nil error and every worker that
\* was started has left its loop
BatchDoneOk ==
    /\ ret.returned
    /\ ~ret.err.isErr
    /\ Len(ret.results) = Len(requests)
    /\ \A w \in Workers : w < maxConcurrency => wpc[w] = "exited"

\* C6: a batch of n >= 1 requests none of which hard-fails eventually returns
\* n results and a nil error, and no worker stays blocked on a channel, for
\* maxConcurrency below, at and above n.
C6_EventuallyReturns ==
    (opc = "start" /\ Len(requests) >= 1 /\ \A i \in Indexes : ~HardFails(i))
        ~> BatchDoneOk

\* a batch smaller than the worker pool has returned and all workers are gone
C6_Witness ==
    /\ BatchDoneOk
    /\ Len(requests) >= 1
    /\ maxConcurrency > Len(requests)

(***************************************************************************)
(* Properties of the handler chain.                                        *)
(***************************************************************************)
\* handler h has committed its side effect for the message of goroutine t
Committed(t, h) == <<h, message[t]>> \in effects

\* C7: when Process returns an error, it is the error of the last handler it
\* invoked, wrapped with that handler's name; the handlers invoked are the
\* snapshot's first k in order and none after the failing one; the effects of
\* the k-1 handlers before it stay committed, and the failing handler is the
\* first that did not succeed. A failed handler never lets Process return nil.
C7_AbortAtFirstError ==
    \A t \in Threads :
        /\ (perr[t].returned /\ perr[t].isErr) =>
              LET k == Len(invoked[t]) IN
              /\ k >= 1
              /\ k <= Len(local[t])
              /\ invoked[t] = SubSeq(local[t], 1, k)
              /\ perr[t].handler = Name(local[t][k])
              /\ \A j \in 1 .. (k - 1) : Committed(t, local[t][j])
              /\ ~Committed(t, local[t][k])
        /\ (perr[t].returned /\ ~perr[t].isErr) =>
              \A j \in 1 .. Len(invoked[t]) : Committed(t, invoked[t][j])

\* Process has returned the error of the second of three handlers
C7_Witness ==
    \E t \in Threads :
        /\ perr[t].returned
        /\ perr[t].isErr
        /\ Len(local[t]) = 3
        /\ Len(invoked[t]) = 2
        /\ Committed(t, local[t][1])

\* C8: when Process returns nil, it has invoked each handler registered at the
\* time of its snapshot exactly once, in registration order, and each has
\* committed its effect for the message.
C8_AllHandlersInOrder ==
    \A t \in Threads :
        (perr[t].returned /\ ~perr[t].isErr) =>
            /\ invoked[t] = regAtCopy[t]
            /\ \A h \in Range(regAtCopy[t]) : Committed(t, h)

\* Process has returned nil after two handlers that were registered in another
\* order than they were created in
C8_Witness ==
    \E t \in Threads :
        /\ perr[t].returned
        /\ ~perr[t].isErr
        /\ Len(invoked[t]) = 2
        /\ invoked[t][1] > invoked[t][2]

\* C9: a Process call never invokes a handler that was not registered when it
\* copied the handler list.
C9_SnapshotIsolation ==
    \A t \in Threads :
        \A j \in 1 .. Len(invoked[t]) :
            /\ j <= Len(regAtCopy[t])
            /\ invoked[t][j] = regAtCopy[t][j]

\* a Process call has run all handlers of its snapshot and is about to return,
\* and a handler has been registered since it took the snapshot
C9_Witness ==
    \E t \in Threads :
        /\ tpc[t] = "loop"
        /\ Len(invoked[t]) >= 1
        /\ idx[t] > Len(local[t])
        /\ Len(registered) > Len(regAtCopy[t])
        /\ handlers = registered

\* the goroutines inside a section guarded by hc.mu
InLockSection == { t \in Threads : tpc[t] \in {"copy", "add_append"} }

\* C10: a read lock is held only while Process copies the list, never while a
\* handler runs; an AddHandler call waiting for the lock can take it as soon as
\* no goroutine is inside a lock section, even with Process calls in flight;
\* and the chain never deadlocks.
C10_NoLockWhileHandling ==
    /\ muReaders = { t \in Threads : tpc[t] = "copy" }
    /\ \A t \in Threads :
          (tpc[t] = "add_lock" /\ InLockSection = {}) => ENABLED AddHandlerLock(t)
    /\ (\E t \in Threads : tpc[t] # "idle") => ENABLED NextChain

\* an AddHandler call made inside a handler holds the write lock while the
\* Process call that invoked the handler is still in flight, and another
\* goroutine's AddHandler call is waiting for the lock
C10_Witness ==
    \E t, u \in Threads :
        /\ t # u
        /\ tpc[t] = "add_append"
        /\ nested[t]
        /\ muWriter = t
        /\ ~perr[t].returned
        /\ tpc[u] = "add_lock"

(***************************************************************************)
(* The validation services of the collection server: SequentialService     *)
(* and ConcurrentService, as given in                                      *)
(* docs/collection-server/02-校验模块设计与实现.md.                          *)
(***************************************************************************)
\* the values of config.Strategy: "" stands for every value the switch in
\* NewValidationService does not name
Strategies == {"sequential", "concurrent", ""}

\* NewValidationService(config, questionnaireService): no call made yet
NewValidationService ==
    /\ \E strategy \in Strategies, mc \in 0 .. MaxConcurrency :
         svc = IF strategy = "concurrent"
               THEN NewConcurrentService(mc)
               ELSE NewSequentialService
    /\ ServiceUnused

\* a goroutine calls ValidateAnswersheet(ctx, req); the goroutines are
\* numbered in the order of their calls
CallValidateAnswersheet(c) ==
    /\ vpc[c] = "idle"
    /\ \A d \in Callers : d < c => vpc[d] # "idle"
    /\ \E n \in 0 .. (MaxAnswers - AnswerTotal(Callers)) :
         \E sheet \in Sheets(n) :
            /\ req' = [req EXCEPT ![c] = [answers |-> sheet]]
            /\ evalCount' = [evalCount EXCEPT ![c] = [i \in 1 .. n |-> 0]]
    /\ vpc' = [vpc EXCEPT ![c] = "fetch"]
    /\ UNCHANGED <<svc, semaphore, vpos, gpc, wg, closer, errorChan, errors, vret,
                   cancelled, evalOutOfOrder>>
    /\ UNCHANGED <<fetchLog, testeeCount>>
    /\ UNCHANGED <<batchVars, chainVars, serialVars, calculateVars, laterVars>>

\* a variant of GetQuestionnaireFails that reports the failed fetch as a
\* validation failure of the testee
GetQuestionnaireFailsAsInvalid(c) ==
    /\ vpc[c] = "fetch"
    /\ fetchLog' = [fetchLog EXCEPT ![c] = Append(@, "failed")]
    /\ vret' = [vret EXCEPT ![c] = Returned(ValidationFailed(TesteeError))]
    /\ vpc' = [vpc EXCEPT ![c] = "done"]
    /\ UNCHANGED <<svc, semaphore, req, vpos, gpc, wg, closer, errorChan, errors,
                   cancelled, evalCount, evalOutOfOrder, testeeCount>>
    /\ UNCHANGED <<batchVars, chainVars, serialVars, calculateVars, laterVars>>

\* GetQuestionnaireForValidation fails:
\* return fmt.Errorf("获取问卷验证信息失败: %w", err)
GetQuestionnaireFails(c) ==
    /\ vpc[c] = "fetch"
    /\ fetchLog' = [fetchLog EXCEPT ![c] = Append(@, "failed")]
    /\ vret' = [vret EXCEPT ![c] = Returned(FetchFailed)]
    /\ vpc' = [vpc EXCEPT ![c] = "done"]
    /\ UNCHANGED <<svc, semaphore, req, vpos, gpc, wg, closer, errorChan, errors,
                   cancelled, evalCount, evalOutOfOrder, testeeCount>>
    /\ UNCHANGED <<batchVars, chainVars, serialVars, calculateVars, laterVars>>

\* SequentialService: GetQuestionnaireForValidation has succeeded, and
\* s.validator.ValidateSubmitRequest(ctx, submitRequest, questionnaireInfo)
\* checks the testee metadata, then goes on to ValidateAnswers
ValidateSubmitRequest(c) ==
    /\ svc.strategy = "sequential"
    /\ vpc[c] = "fetch"
    /\ fetchLog' = [fetchLog EXCEPT ![c] = Append(@, "ok")]
    /\ testeeCount' = [testeeCount EXCEPT ![c] = @ + 1]
    /\ \E testeeOk \in BOOLEAN :
       IF testeeOk
       THEN /\ vpc' = [vpc EXCEPT ![c] = "answers"]
            /\ vpos' = [vpos EXCEPT ![c] = 1]
            /\ UNCHANGED vret
       ELSE /\ vpc' = [vpc EXCEPT ![c] = "done"]
            /\ vret' = [vret EXCEPT ![c] = Returned(ValidationFailed(TesteeError))]
            /\ UNCHANGED vpos
    /\ UNCHANGED <<svc, semaphore, req, gpc, wg, closer, errorChan, errors,
                   cancelled, evalCount, evalOutOfOrder>>
    /\ UNCHANGED <<batchVars, chainVars, serialVars, calculateVars, laterVars>>

\* the answer at position i of call c is validated now
Evaluate(c, i) ==
    /\ evalCount' = [evalCount EXCEPT ![c][i] = @ + 1]
    /\ evalOutOfOrder' =
         [evalOutOfOrder EXCEPT ![c] = @ \/ \E j \in 1 .. (i - 1) : evalCount[c][j] = 0]

\* a variant of ValidateAnswers that returns the error of the last answer only
ValidateAnswersLastOnly(c) ==
    /\ vpc[c] = "answers"
    /\ vpos[c] <= Len(req[c].answers)
    /\ Evaluate(c, vpos[c])
    /\ LET err == ValidateAnswer(req[c].answers[vpos[c]])
       IN  IF err # NilError /\ vpos[c] = Len(req[c].answers)
           THEN /\ vpc' = [vpc EXCEPT ![c] = "done"]
                /\ vret' = [vret EXCEPT ![c] = Returned(ValidationFailed(err))]
                /\ UNCHANGED vpos
           ELSE /\ vpos' = [vpos EXCEPT ![c] = @ + 1]
                /\ UNCHANGED <<vpc, vret>>
    /\ UNCHANGED <<svc, semaphore, req, gpc, wg, closer, errorChan, errors, cancelled>>
    /\ UNCHANGED <<fetchLog, testeeCount>>
    /\ UNCHANGED <<batchVars, chainVars, serialVars, calculateVars, laterVars>>

\* one iteration of ValidateAnswers' loop:
\* if err := v.ValidateAnswer(ctx, answer, question); err != nil { return err },
\* and the caller's return fmt.Errorf("答卷验证失败: %w", err)
ValidateAnswers(c) ==
    /\ vpc[c] = "answers"
    /\ vpos[c] <= Len(req[c].answers)
    /\ Evaluate(c, vpos[c])
    /\ LET err == ValidateAnswer(req[c].answers[vpos[c]])
       IN  IF err # NilError
           THEN /\ vpc' = [vpc EXCEPT ![c] = "done"]
                /\ vret' = [vret EXCEPT ![c] = Returned(ValidationFailed(err))]
                /\ UNCHANGED vpos
           ELSE /\ vpos' = [vpos EXCEPT ![c] = @ + 1]
                /\ UNCHANGED <<vpc, vret>>
    /\ UNCHANGED <<svc, semaphore, req, gpc, wg, closer, errorChan, errors, cancelled>>
    /\ UNCHANGED <<fetchLog, testeeCount>>
    /\ UNCHANGED <<batchVars, chainVars, serialVars, calculateVars, laterVars>>

\* ValidateAnswers' loop has ended: return nil, and the caller's return nil
SequentialReturnNil(c) ==
    /\ vpc[c] = "answers"
    /\ vpos[c] > Len(req[c].answers)
    /\ vpc' = [vpc EXCEPT ![c] = "done"]
    /\ vret' = [vret EXCEPT ![c] = Returned(NilError)]
    /\ UNCHANGED <<svc, semaphore, req, vpos, gpc, wg, closer, errorChan, errors,
                   cancelled, evalCount, evalOutOfOrder>>
    /\ UNCHANGED <<fetchLog, testeeCount>>
    /\ UNCHANGED <<batchVars, chainVars, serialVars, calculateVars, laterVars>>

\* ConcurrentService: return s.validateConcurrently(ctx, submitRequest, ...):
\*   var wg sync.WaitGroup; errorChan := make(chan error, len(req.Answers))
\*   for _, answer := range req.Answers { wg.Add(1); go func(ans) {...}(answer) }
\*   go func() { wg.Wait(); close(errorChan) }()
\* up to the caller's arrival at for err := range errorChan. None of these
\* statements blocks or reads what another goroutine writes, so the goroutines
\* started here take their first steps after the last of them.
ValidateConcurrently(c) ==
    /\ svc.strategy = "concurrent"
    /\ vpc[c] = "fetch"
    /\ fetchLog' = [fetchLog EXCEPT ![c] = Append(@, "ok")]
    /\ wg' = [wg EXCEPT ![c] = Len(req[c].answers)]
    /\ gpc' = [gpc EXCEPT ![c] = [i \in 1 .. Len(req[c].answers) |-> "acquire"]]
    /\ closer' = [closer EXCEPT ![c] = "waiting"]
    /\ vpc' = [vpc EXCEPT ![c] = "collect"]
    /\ UNCHANGED <<svc, semaphore, req, vpos, errorChan, errors, vret,
                   cancelled, evalCount, evalOutOfOrder, testeeCount>>
    /\ UNCHANGED <<batchVars, chainVars, serialVars, calculateVars, laterVars>>

\* a variant of the closing goroutine that closes errorChan without wg.Wait()
CloserCloseNoWait(c) ==
    /\ closer[c] = "waiting"
    /\ closer' = [closer EXCEPT ![c] = "closed"]
    /\ UNCHANGED <<svc, semaphore, req, vpc, vpos, gpc, wg, errorChan, errors, vret,
                   cancelled, evalCount, evalOutOfOrder>>
    /\ UNCHANGED <<fetchLog, testeeCount>>
    /\ UNCHANGED <<batchVars, chainVars, serialVars, calculateVars, laterVars>>

\* wg.Wait() returns; close(errorChan)
CloserClose(c) ==
    /\ closer[c] = "waiting"
    /\ wg[c] = 0
    /\ closer' = [closer EXCEPT ![c] = "closed"]
    /\ UNCHANGED <<svc, semaphore, req, vpc, vpos, gpc, wg, errorChan, errors, vret,
                   cancelled, evalCount, evalOutOfOrder>>
    /\ UNCHANGED <<fetchLog, testeeCount>>
    /\ UNCHANGED <<batchVars, chainVars, serialVars, calculateVars, laterVars>>

\* a variant of the goroutine that does not wait for a free token
AcquireSemaphoreUnbounded(c, i) ==
    /\ i \in DOMAIN gpc[c]
    /\ gpc[c][i] = "acquire"
    /\ semaphore' = semaphore + 1
    /\ gpc' = [gpc EXCEPT ![c][i] = "validating"]
    /\ UNCHANGED <<svc, req, vpc, vpos, wg, closer, errorChan, errors, vret,
                   cancelled, evalCount, evalOutOfOrder>>
    /\ UNCHANGED <<fetchLog, testeeCount>>
    /\ UNCHANGED <<batchVars, chainVars, serialVars, calculateVars, laterVars>>

\* s.semaphore <- struct{}{}: blocks while the channel holds maxConcurrency tokens
AcquireSemaphore(c, i) ==
    /\ i \in DOMAIN gpc[c]
    /\ gpc[c][i] = "acquire"
    /\ semaphore < svc.maxConcurrency
    /\ semaphore' = semaphore + 1
    /\ gpc' = [gpc EXCEPT ![c][i] = "validating"]
    /\ UNCHANGED <<svc, req, vpc, vpos, wg, closer, errorChan, errors, vret,
                   cancelled, evalCount, evalOutOfOrder>>
    /\ UNCHANGED <<fetchLog, testeeCount>>
    /\ UNCHANGED <<batchVars, chainVars, serialVars, calculateVars, laterVars>>

\* a variant of the goroutine that reports its error only while errorChan is
\* empty
ValidateSingleAnswerFirstOnly(c, i) ==
    /\ i \in DOMAIN gpc[c]
    /\ gpc[c][i] = "validating"
    /\ Evaluate(c, i)
    /\ LET err == ValidateAnswer(req[c].answers[i])
       IN  errorChan' = [errorChan EXCEPT ![c] =
                            IF err # NilError /\ @ = <<>> THEN Append(@, err) ELSE @]
    /\ semaphore' = semaphore - 1
    /\ wg' = [wg EXCEPT ![c] = @ - 1]
    /\ gpc' = [gpc EXCEPT ![c][i] = "done"]
    /\ UNCHANGED <<svc, req, vpc, vpos, closer, errors, vret, cancelled>>
    /\ UNCHANGED <<fetchLog, testeeCount>>
    /\ UNCHANGED <<batchVars, chainVars, serialVars, calculateVars, laterVars>>

\* if err := s.validateSingleAnswer(ctx, ans, questionnaire); err != nil {
\*     errorChan <- err }; then the deferred <-s.semaphore and wg.Done()
ValidateSingleAnswer(c, i) ==
    /\ i \in DOMAIN gpc[c]
    /\ gpc[c][i] = "validating"
    /\ Evaluate(c, i)
    /\ LET err == ValidateAnswer(req[c].answers[i])
       IN  IF err # NilError
           THEN /\ Len(errorChan[c]) < Len(req[c].answers)
                /\ errorChan' = [errorChan EXCEPT ![c] = Append(@, err)]
           ELSE UNCHANGED errorChan
    /\ semaphore' = semaphore - 1
    /\ wg' = [wg EXCEPT ![c] = @ - 1]
    /\ gpc' = [gpc EXCEPT ![c][i] = "done"]
    /\ UNCHANGED <<svc, req, vpc, vpos, closer, errors, vret, cancelled>>
    /\ UNCHANGED <<fetchLog, testeeCount>>
    /\ UNCHANGED <<batchVars, chainVars, serialVars, calculateVars, laterVars>>

\* for err := range errorChan { errors = append(errors, err) }
CollectError(c) ==
    /\ vpc[c] = "collect"
    /\ errorChan[c] # <<>>
    /\ errors' = [errors EXCEPT ![c] = Append(@, Head(errorChan[c]))]
    /\ errorChan' = [errorChan EXCEPT ![c] = Tail(@)]
    /\ UNCHANGED <<svc, semaphore, req, vpc, vpos, gpc, wg, closer, vret, cancelled,
                   evalCount, evalOutOfOrder>>
    /\ UNCHANGED <<fetchLog, testeeCount>>
    /\ UNCHANGED <<batchVars, chainVars, serialVars, calculateVars, laterVars>>

\* a variant of the return that reports a failure only from two errors on
ReturnValidationLenient(c) ==
    /\ vpc[c] = "collect"
    /\ errorChan[c] = <<>>
    /\ closer[c] = "closed"
    /\ vret' = [vret EXCEPT ![c] = IF Len(errors[c]) > 1
                                   THEN Returned(ConcurrentFailed(errors[c]))
                                   ELSE Returned(NilError)]
    /\ vpc' = [vpc EXCEPT ![c] = "done"]
    /\ UNCHANGED <<svc, semaphore, req, vpos, gpc, wg, closer, errorChan, errors,
                   cancelled, evalCount, evalOutOfOrder>>
    /\ UNCHANGED <<fetchLog, testeeCount>>
    /\ UNCHANGED <<batchVars, chainVars, serialVars, calculateVars, laterVars>>

\* the range loop ends on the closed, drained channel;
\* if len(errors) > 0 { return fmt.Errorf(...) }; return nil
ReturnValidation(c) ==
    /\ vpc[c] = "collect"
    /\ errorChan[c] = <<>>
    /\ closer[c] = "closed"
    /\ vret' = [vret EXCEPT ![c] = IF Len(errors[c]) > 0
                                   THEN Returned(ConcurrentFailed(errors[c]))
                                   ELSE Returned(NilError)]
    /\ vpc' = [vpc EXCEPT ![c] = "done"]
    /\ UNCHANGED <<svc, semaphore, req, vpos, gpc, wg, closer, errorChan, errors,
                   cancelled, evalCount, evalOutOfOrder>>
    /\ UNCHANGED <<fetchLog, testeeCount>>
    /\ UNCHANGED <<batchVars, chainVars, serialVars, calculateVars, laterVars>>

NextValidation ==
    \/ \E c \in Callers : CallValidateAnswersheet(c)
    \/ \E c \in Callers : GetQuestionnaireFails(c)
    \/ \E c \in Callers : ValidateSubmitRequest(c)
    \/ \E c \in Callers : ValidateAnswers(c)
    \/ \E c \in Callers : SequentialReturnNil(c)
    \/ \E c \in Callers : ValidateConcurrently(c)
    \/ \E c \in Callers : CloserClose(c)
    \/ \E c \in Callers : \E i \in 1 .. MaxAnswers : AcquireSemaphore(c, i)
    \/ \E c \in Callers : \E i \in 1 .. MaxAnswers : ValidateSingleAnswer(c, i)
    \/ \E c \in Callers : CollectError(c)
    \/ \E c \in Callers : ReturnValidation(c)

\* one validation service, called by MaxCalls goroutines; the calculation
\* adapters and the handler chain are not in use
InitValidation ==
    NewValidationService /\ BatchParked /\ SerialParked /\ ChainParked
        /\ CalculateParked /\ LaterParked

SpecValidation == InitValidation /\ [][NextValidation]_vars

\* the caller's ctx is cancelled while its ValidateAnswersheet call runs;
\* neither service reads ctx.Done() or ctx.Err()
CancelContext(c) ==
    /\ vpc[c] \in {"fetch", "answers", "collect"}
    /\ ~cancelled[c]
    /\ cancelled' = [cancelled EXCEPT ![c] = TRUE]
    /\ UNCHANGED <<svc, semaphore, req, vpc, vpos, gpc, wg, closer, errorChan, errors,
                   vret, evalCount, evalOutOfOrder>>
    /\ UNCHANGED <<fetchLog, testeeCount>>
    /\ UNCHANGED <<batchVars, chainVars, serialVars, calculateVars, laterVars>>

NextValidationCtx ==
    \/ NextValidation
    \/ \E c \in Callers : CancelContext(c)

\* the validation service with callers that may cancel their contexts
SpecValidationCtx == InitValidation /\ [][NextValidationCtx]_vars

(***************************************************************************)
(* Properties of the validation services.                                  *)
(***************************************************************************)
\* the positions of call c's answers
Positions(c) == 1 .. Len(req[c].answers)

\* the positions of the answers of call c that fail validation
Failed(c) == { i \in Positions(c) : ValidateAnswer(req[c].answers[i]) # NilError }

\* the lowest position in a non-empty set of positions
Lowest(ps) == CHOOSE i \in ps : \A j \in ps : i <= j

\* C11: sequential validation checks the answers in list order and stops at
\* the first failing answer: no answer is validated twice or before one
\* positioned ahead of it, no answer positioned after an invalid one is
\* validated, and an answer-level error returned is that of the
\* lowest-positioned invalid answer.
C11_SequentialFailFast ==
    \A c \in Callers :
        svc.strategy = "sequential" =>
            /\ ~evalOutOfOrder[c]
            /\ \A i \in Positions(c) :
                 /\ evalCount[c][i] <= 1
                 /\ evalCount[c][i] = 1 => \A j \in Failed(c) : i <= j
            /\ (vret[c].returned /\ vret[c].err.cause = "answer") =>
                 /\ Failed(c) # {}
                 /\ vret[c].err = ValidationFailed(
                        AnswerError(req[c].answers[Lowest(Failed(c))]))
                 /\ \A i \in Positions(c) :
                      evalCount[c][i] = IF i <= Lowest(Failed(c)) THEN 1 ELSE 0
            /\ (vret[c].returned /\ vret[c].err = NilError) =>
                 \A i \in Positions(c) : evalCount[c][i] = 1

\* a sequential call on a sheet whose two answers are both invalid has
\* returned the first answer's error without validating the second
C11_Witness ==
    \E c \in Callers :
        /\ svc.strategy = "sequential"
        /\ Failed(c) = {1, 2}
        /\ vret[c].returned
        /\ vret[c].err.cause = "answer"
        /\ vret[c].err.code = req[c].answers[1].questionCode
        /\ evalCount[c][2] = 0

\* C12: a concurrent call that has returned from validateConcurrently has
\* validated every answer of its sheet exactly once, whatever the verdicts
\* and the interleaving were, and the error count of the aggregate it
\* returned is the number of answers that failed (nil if none failed); the
\* first error it names is the error of one of the failed answers.
C12_FullScanCount ==
    \A c \in Callers :
        (svc.strategy = "concurrent" /\ vret[c].returned /\ vret[c].err # FetchFailed) =>
            /\ \A i \in Positions(c) : evalCount[c][i] = 1
            /\ IF Failed(c) = {}
               THEN vret[c].err = NilError
               ELSE /\ vret[c].err.kind = "concurrent"
                    /\ vret[c].err.count = Cardinality(Failed(c))
                    /\ \E i \in Failed(c) :
                         vret[c].err.code = req[c].answers[i].questionCode

\* a concurrent call on a sheet whose two answers are both invalid has
\* returned an aggregate of two errors whose first error is the second
\* answer's
C12_Witness ==
    \E c \in Callers :
        /\ svc.strategy = "concurrent"
        /\ Failed(c) = {1, 2}
        /\ vret[c].returned
        /\ vret[c].err.count = 2
        /\ vret[c].err.code = req[c].answers[2].questionCode

\* the validation goroutines of all calls that are validating an answer
Validating ==
    { <<c, i>> \in Callers \X (1 .. MaxAnswers) :
        i \in DOMAIN gpc[c] /\ gpc[c][i] = "validating" }

\* C13: at every instant the number of answers being validated by the
\* service, over all the calls running on it, is at most its maxConcurrency.
C13_BoundedValidation ==
    /\ Cardinality(Validating) <= svc.maxConcurrency
    /\ Cardinality(Validating) = semaphore

\* two calls run on a service with maxConcurrency 1: the goroutine of one is
\* validating, the goroutine of the other waits for the semaphore
C13_Witness ==
    /\ svc.strategy = "concurrent"
    /\ svc.maxConcurrency = 1
    /\ \E c, d \in Callers :
         /\ c # d
         /\ <<c, 1>> \in Validating
         /\ 1 \in DOMAIN gpc[d]
         /\ gpc[d][1] = "acquire"

\* C14: a concurrent ValidateAnswersheet call that has returned has no
\* validation goroutine that is still validating, waiting for the semaphore
\* or yet to send on the error channel: each one has finished, and the
\* WaitGroup counter is zero.
C14_ReturnsAfterGoroutines ==
    \A c \in Callers :
        vret[c].returned =>
            /\ \A i \in DOMAIN gpc[c] : gpc[c][i] = "done"
            /\ wg[c] = 0
            /\ errorChan[c] = <<>>

\* a call on a sheet of two answers, the first of them invalid, has returned:
\* both its goroutines have finished and its error channel is closed
C14_Witness ==
    \E c \in Callers :
        /\ vret[c].returned
        /\ Len(gpc[c]) = 2
        /\ Failed(c) = {1}
        /\ closer[c] = "closed"
        /\ \A i \in DOMAIN gpc[c] : gpc[c][i] = "done"

\* C15: in either mode a ValidateAnswersheet call that has returned has
\* returned either nil or one error; it has returned nil only if every answer
\* of the request passed validation, which in either mode means that every
\* answer was validated; there is no third outcome.
C15_NilOnlyIfAllValid ==
    \A c \in Callers :
        vret[c].returned =>
            /\ vret[c].err.kind \in {"nil", "fetch", "validation", "concurrent"}
            /\ vret[c].err = NilError =>
                 /\ Failed(c) = {}
                 /\ \A i \in Positions(c) : evalCount[c][i] = 1
            /\ Failed(c) # {} => vret[c].err # NilError

\* a concurrent call on a sheet with a valid first and an invalid second
\* answer has returned an error
C15_Witness ==
    \E c \in Callers :
        /\ svc.strategy = "concurrent"
        /\ Failed(c) = {2}
        /\ Len(req[c].answers) = 2
        /\ vret[c].returned
        /\ vret[c].err.kind = "concurrent"

\* C16: whenever the ctx of a concurrent ValidateAnswersheet call is cancelled
\* and the call is blocked in its wait for the validation goroutines, with no
\* error to receive and the channel still open, the call can return at once.
C16_CancelUnblocksWait ==
    \A c \in Callers :
        (cancelled[c] /\ vpc[c] = "collect" /\ errorChan[c] = <<>>
                      /\ closer[c] # "closed")
            => ENABLED ReturnValidation(c)

(***************************************************************************)
(* SerialCalculationAdapter.CalculateBatch, and the calculation port the   *)
(* factory creates: the serial or the concurrent adapter.                  *)
(***************************************************************************)
\* CalculateBatch is called on a serial adapter
CallSerialCalculateBatch ==
    /\ \E n \in 0 .. MaxBatch : serialRequests \in Batches(n)
    /\ spc = "start"
    /\ serialIndex = 0
    /\ serialResults = <<>>
    /\ serialRet = NotReturned
    /\ serialCalls = <<>>

\* if len(requests) == 0 { return []*CalculationResult{}, nil }
SerialReturnEmpty ==
    /\ spc = "start"
    /\ Len(serialRequests) = 0
    /\ serialRet' = [returned |-> TRUE, results |-> <<>>, isNilSlice |-> FALSE,
                     err |-> NoErr]
    /\ spc' = "done"
    /\ UNCHANGED <<serialRequests, serialIndex, serialResults, serialCalls>>
    /\ UNCHANGED <<batchVars, chainVars, validationVars, calculateVars, laterVars>>

\* results := make([]*CalculationResult, len(requests))
SerialMakeResults ==
    /\ spc = "start"
    /\ Len(serialRequests) > 0
    /\ serialResults' = [i \in 1 .. Len(serialRequests) |-> NilResult]
    /\ serialIndex' = 0
    /\ spc' = "loop"
    /\ UNCHANGED <<serialRequests, serialRet, serialCalls>>
    /\ UNCHANGED <<batchVars, chainVars, validationVars, calculateVars, laterVars>>

\* a variant of the loop body that skips a request whose calculation fails
SerialCalculateSkipFailed ==
    /\ spc = "loop"
    /\ serialIndex < Len(serialRequests)
    /\ LET out == Calculate(serialRequests[serialIndex + 1])
       IN  serialResults' = [serialResults EXCEPT ![serialIndex + 1] = out.result]
    /\ serialCalls' = Append(serialCalls, serialIndex)
    /\ serialIndex' = serialIndex + 1
    /\ UNCHANGED <<serialRequests, spc, serialRet>>
    /\ UNCHANGED <<batchVars, chainVars, validationVars, calculateVars, laterVars>>

\* for i, request := range requests {
\*     result, err := a.Calculate(ctx, request)
\*     if err != nil { return nil, fmt.Errorf("串行批量计算失败，任务 %d: %w", i, err) }
\*     results[i] = result }
SerialCalculate ==
    /\ spc = "loop"
    /\ serialIndex < Len(serialRequests)
    /\ serialCalls' = Append(serialCalls, serialIndex)
    /\ LET out == Calculate(serialRequests[serialIndex + 1])
       IN  IF out.err # ""
           THEN /\ serialRet' = [returned |-> TRUE, results |-> <<>>,
                                 isNilSlice |-> TRUE,
                                 err |-> WrapIndex(serialIndex, out.err)]
                /\ spc' = "done"
                /\ UNCHANGED <<serialIndex, serialResults>>
           ELSE /\ serialResults' =
                      [serialResults EXCEPT ![serialIndex + 1] = out.result]
                /\ serialIndex' = serialIndex + 1
                /\ UNCHANGED <<spc, serialRet>>
    /\ UNCHANGED serialRequests
    /\ UNCHANGED <<batchVars, chainVars, validationVars, calculateVars, laterVars>>

\* return results, nil
SerialReturn ==
    /\ spc = "loop"
    /\ serialIndex = Len(serialRequests)
    /\ serialRet' = [returned |-> TRUE, results |-> serialResults,
                     isNilSlice |-> FALSE, err |-> NoErr]
    /\ spc' = "done"
    /\ UNCHANGED <<serialRequests, serialIndex, serialResults, serialCalls>>
    /\ UNCHANGED <<batchVars, chainVars, validationVars, calculateVars, laterVars>>

NextSerial ==
    \/ SerialReturnEmpty
    \/ SerialMakeResults
    \/ SerialCalculate
    \/ SerialReturn

NextPort ==
    \/ NextSerial
    \/ NextBatch

\* CreateCalculationPort(adapterType, maxConcurrency...) returns the serial or
\* the concurrent adapter, and CalculateBatch is called on it once
InitPort ==
    /\ \/ CallSerialCalculateBatch /\ BatchParked
       \/ CallCalculateBatch /\ SerialParked
    /\ ChainParked
    /\ ValidationParked
    /\ CalculateParked
    /\ LaterParked

SpecPort == InitPort /\ [][NextPort]_vars

(***************************************************************************)
(* Properties of the calculation port.                                     *)
(***************************************************************************)
\* request i (0-based) of the serial batch hard-fails
SerialHardFails(i) == Calculate(serialRequests[i + 1]).err # ""

SerialIndexes == 0 .. (Len(serialRequests) - 1)

\* C17: the serial CalculateBatch calls Calculate on the requests in input
\* order, once each, and calls it for no request after one that hard-failed;
\* when it returns on a batch whose lowest hard-failing index is i, it returns
\* no results and an error that wraps that failure with index i, having
\* calculated the requests 0..i only; on a batch without a hard failure it
\* returns the result of every request, by position, and a nil error.
C17_SerialFailFast ==
    /\ \A k \in 1 .. Len(serialCalls) :
         /\ serialCalls[k] = k - 1
         /\ k < Len(serialCalls) => ~SerialHardFails(serialCalls[k])
    /\ (serialRet.returned /\ Len(serialRequests) >= 1) =>
         IF \E i \in SerialIndexes : SerialHardFails(i)
         THEN LET i == CHOOSE j \in SerialIndexes :
                         /\ SerialHardFails(j)
                         /\ \A k \in SerialIndexes : SerialHardFails(k) => j <= k
              IN  /\ serialRet.isNilSlice
                  /\ serialRet.results = <<>>
                  /\ serialRet.err =
                        WrapIndex(i, Calculate(serialRequests[i + 1]).err)
                  /\ Len(serialCalls) = i + 1
         ELSE /\ serialRet.err = NoErr
              /\ ~serialRet.isNilSlice
              /\ Len(serialCalls) = Len(serialRequests)
              /\ serialRet.results =
                    [k \in 1 .. Len(serialRequests) |->
                        Calculate(serialRequests[k]).result]

\* a serial batch of three requests, the second and third of which hard-fail,
\* has returned the error of index 1 after two Calculate calls
C17_Witness ==
    /\ serialRet.returned
    /\ Len(serialRequests) = 3
    /\ ~SerialHardFails(0)
    /\ SerialHardFails(1)
    /\ SerialHardFails(2)
    /\ serialRet.err.isErr
    /\ serialRet.err.index = 1
    /\ serialCalls = <<0, 1>>

\* the return value ([]*CalculationResult{}, nil)
EmptyResults == [returned |-> TRUE, results |-> <<>>, isNilSlice |-> FALSE, err |-> NoErr]

\* C18: CalculateBatch on an empty request slice returns an empty, non-nil
\* result slice and a nil error, on the serial and on the concurrent adapter,
\* without a Calculate call.
C18_EmptyBatch ==
    /\ (spc = "done" /\ Len(serialRequests) = 0) =>
          serialRet = EmptyResults /\ serialCalls = <<>>
    /\ (opc = "done" /\ Len(requests) = 0) =>
          ret = EmptyResults /\ spawned = 0

\* the serial adapter has returned from a call on an empty slice
C18_Witness ==
    /\ spc = "done"
    /\ serialRequests = <<>>
    /\ serialRet.returned
    /\ serialRet.err = NoErr

(***************************************************************************)
(* CalculationPort.Calculate on one request: the formula type is mapped to *)
(* a strategy, the rule is built and handed to the calculation engine.     *)
(* The numeric value of the result is not part of this model.              *)
(***************************************************************************)
\* the formula types of a request: the ones the mapping names, and two it
\* does not name
FormulaTypes ==
    {"the_option", "score", "option", "sum", "average", "avg", "max", "maximum",
     "min", "minimum", "weighted", "weighted_average", "median", ""}

\* the values an operand takes
OperandValues == {1, 2}

\* the operand lists of at most MaxOperands operands
OperandLists ==
    UNION { [1 .. n -> OperandValues] : n \in 0 .. MaxOperands }

\* the requests handed to Calculate: nil, or a request
CalculationRequests ==
    {NilRequest} \cup
    [isNil : {FALSE}, id : {1}, formulaType : FormulaTypes,
     operands : OperandLists, precision : {0, 2}, roundingMode : {"", "round"}]

\* the strategies registered with the calculation engine
RegisteredStrategies == {"option", "sum", "average", "max", "min", "weighted"}

\* a variant of mapFormulaTypeToStrategy that knows the canonical names only:
\* the aliases fall back to the option strategy
mapFormulaTypeToStrategyNoAlias(formulaType) ==
    CASE formulaType = "option" -> "option"
      [] formulaType = "sum" -> "sum"
      [] formulaType = "average" -> "average"
      [] formulaType = "max" -> "max"
      [] formulaType = "min" -> "min"
      [] formulaType = "weighted" -> "weighted"
      [] OTHER -> "option"

\* a variant of mapFormulaTypeToStrategy that hands the sum formula to the
\* average strategy
mapFormulaTypeToStrategySumAsAverage(formulaType) ==
    CASE formulaType \in {"the_option", "score", "option"} -> "option"
      [] formulaType \in {"sum", "average", "avg"} -> "average"
      [] formulaType \in {"max", "maximum"} -> "max"
      [] formulaType \in {"min", "minimum"} -> "min"
      [] formulaType \in {"weighted", "weighted_average"} -> "weighted"
      [] OTHER -> "option"

\* func mapFormulaTypeToStrategy(formulaType string) string
mapFormulaTypeToStrategy(formulaType) ==
    CASE formulaType \in {"the_option", "score", "option"} -> "option"
      [] formulaType = "sum" -> "sum"
      [] formulaType \in {"average", "avg"} -> "average"
      [] formulaType \in {"max", "maximum"} -> "max"
      [] formulaType \in {"min", "minimum"} -> "min"
      [] formulaType \in {"weighted", "weighted_average"} -> "weighted"
      [] OTHER -> "option"

\* a variant of createCalculationRule that keeps the strategy name in a field
\* the calls share: while another call is between building its rule and the
\* engine, the rule takes that call's strategy
createCalculationRuleShared(request) ==
    [rule |-> [strategyName |->
                  IF \E d \in Calculators : cPc[d] = "engine"
                  THEN cRule[CHOOSE d \in Calculators : cPc[d] = "engine"].strategyName
                  ELSE mapFormulaTypeToStrategy(request.formulaType),
               precision |-> IF request.precision > 0 THEN {request.precision} ELSE {},
               roundingMode |-> IF request.roundingMode # ""
                                THEN {request.roundingMode} ELSE {}],
     err |-> ""]

\* a variant of createCalculationRule that returns an error for a formula
\* type the mapping does not name
createCalculationRuleStrict(request) ==
    [rule |-> [strategyName |-> mapFormulaTypeToStrategy(request.formulaType),
               precision |-> IF request.precision > 0 THEN {request.precision} ELSE {},
               roundingMode |-> IF request.roundingMode # ""
                                THEN {request.roundingMode} ELSE {}],
     err |-> IF request.formulaType \in {"median", ""}
             THEN "unknown formula type" ELSE ""]

\* func createCalculationRule(request) (*rules.CalculationRule, error): the
\* precision and the rounding mode are set only if the request gives them
\* ({}: the rule keeps its default); the error is always nil
createCalculationRule(request) ==
    [rule |-> [strategyName |-> mapFormulaTypeToStrategy(request.formulaType),
               precision |-> IF request.precision > 0 THEN {request.precision} ELSE {},
               roundingMode |-> IF request.roundingMode # ""
                                THEN {request.roundingMode} ELSE {}],
     err |-> ""]

\* the calculation engine: the error of the strategy lookup and of the
\* strategy on these operands ("": none). The sum strategy accepts an empty
\* operand list; a request carries no weights, which the weighted strategy
\* requires
EngineCalculate(rule, operands) ==
    IF rule.strategyName \notin RegisteredStrategies
    THEN "ErrUnknownStrategy"
    ELSE IF rule.strategyName = "option" /\ Len(operands) # 1
         THEN "option strategy requires exactly one operand"
         ELSE IF rule.strategyName = "weighted"
              THEN "weighted strategy requires weights"
              ELSE IF Len(operands) = 0 /\ rule.strategyName # "sum"
                   THEN "no operands"
                   ELSE ""

\* the value 0 of a result without a value
ZeroValue == [num |-> 0, den |-> 1]

\* the sum strategy: the arithmetic sum of the operands
RECURSIVE SumStrategy(_)
SumStrategy(operands) ==
    IF operands = <<>> THEN 0 ELSE Head(operands) + SumStrategy(Tail(operands))

\* the largest (sign = 1) or the smallest (sign = -1) of the operands
Extreme(operands, sign) ==
    CHOOSE x \in { operands[i] : i \in 1 .. Len(operands) } :
        \A i \in 1 .. Len(operands) : sign * operands[i] <= sign * x

\* the value the engine returns when the strategy has no error, as the
\* fraction num / den; precision and rounding leave a whole number as it is
EngineValue(rule, operands) ==
    IF EngineCalculate(rule, operands) # ""
    THEN ZeroValue
    ELSE CASE rule.strategyName = "option" -> [num |-> operands[1], den |-> 1]
           [] rule.strategyName = "sum" -> [num |-> SumStrategy(operands), den |-> 1]
           [] rule.strategyName = "average" ->
                 [num |-> SumStrategy(operands), den |-> Len(operands)]
           [] rule.strategyName = "max" -> [num |-> Extreme(operands, 1), den |-> 1]
           [] rule.strategyName = "min" -> [num |-> Extreme(operands, -1), den |-> 1]
           [] OTHER -> ZeroValue

\* Calculate(ctx, request): a Go-level error for a nil request; otherwise the
\* result carries the request's id and, in its Error field, the failure of
\* the rule or of the engine
PortCalculate(request) ==
    IF request.isNil
    THEN [returned |-> TRUE, isNilResult |-> TRUE, id |-> 0, strategy |-> "",
          value |-> ZeroValue, error |-> "", err |-> "nil request"]
    ELSE LET made == createCalculationRule(request)
             failure == IF made.err # ""
                        THEN made.err
                        ELSE EngineCalculate(made.rule, request.operands)
         IN  [returned |-> TRUE, isNilResult |-> FALSE, id |-> request.id,
              strategy |-> made.rule.strategyName,
              value |-> IF made.err # "" THEN ZeroValue
                        ELSE EngineValue(made.rule, request.operands),
              error |-> failure, err |-> ""]

\* result, err := adapter.Calculate(ctx, request)
CallCalculate ==
    /\ ~callOut.returned
    /\ callOut' = PortCalculate(callRequest)
    /\ UNCHANGED callRequest
    /\ UNCHANGED <<batchVars, chainVars, serialVars, validationVars, laterVars>>

\* one request is about to be handed to Calculate
InitCalculate ==
    /\ callRequest \in CalculationRequests
    /\ callOut = NotCalled
    /\ BatchParked
    /\ SerialParked
    /\ ChainParked
    /\ ValidationParked
    /\ LaterParked

SpecCalculate == InitCalculate /\ [][CallCalculate]_vars

\* the failure of building the rule or of the engine for a non-nil request
CalculationFailure(request) ==
    LET made == createCalculationRule(request)
    IN  IF made.err # "" THEN made.err
        ELSE EngineCalculate(made.rule, request.operands)

StartedWorkers == { w \in Workers : wpc[w] # "unstarted" }

\* C20: a concurrent CalculateBatch over n requests never has more workers
\* started than n, and once its start loop is over it has started exactly
\* min(maxConcurrency, n) workers.
C20_MinWorkers ==
    /\ Cardinality(StartedWorkers) <= Len(requests)
    /\ opc \in {"send", "close", "collect", "return", "done"} =>
          Cardinality(StartedWorkers) =
              IF maxConcurrency < Len(requests) THEN maxConcurrency ELSE Len(requests)

(***************************************************************************)
(* The strategy Calculate selects for a formula type.                      *)
(***************************************************************************)
\* C28: Calculate on a request selects the strategy by the fixed table:
\* the_option, score and option select option; sum selects sum; average and
\* avg select average; max and maximum select max; min and minimum select
\* min; weighted and weighted_average select weighted; every other formula
\* type selects option.
C28_FormulaTable ==
    (callOut.returned /\ ~callRequest.isNil) =>
        LET ft == callRequest.formulaType
        IN  /\ ft \in {"the_option", "score", "option"} => callOut.strategy = "option"
            /\ ft = "sum" => callOut.strategy = "sum"
            /\ ft \in {"average", "avg"} => callOut.strategy = "average"
            /\ ft \in {"max", "maximum"} => callOut.strategy = "max"
            /\ ft \in {"min", "minimum"} => callOut.strategy = "min"
            /\ ft \in {"weighted", "weighted_average"} =>
                  callOut.strategy = "weighted"
            /\ ft \notin {"the_option", "score", "option", "sum", "average", "avg",
                          "max", "maximum", "min", "minimum", "weighted",
                          "weighted_average"} => callOut.strategy = "option"

\* Calculate has returned for a request of formula type weighted_average and
\* selected the weighted strategy
C28_Witness ==
    /\ callOut.returned
    /\ ~callRequest.isNil
    /\ callRequest.formulaType = "weighted_average"
    /\ callOut.strategy = "weighted"

(***************************************************************************)
(* A failed questionnaire fetch in ValidateAnswersheet.                    *)
(***************************************************************************)
\* C24: a ValidateAnswersheet call whose questionnaire fetch failed, on the
\* sequential and on the concurrent service, has returned the fetch failure,
\* which is neither nil nor a validation failure, and has validated neither
\* the testee nor any answer nor started a validation goroutine; a call that
\* returned a validation failure had fetched the questionnaire.
C24_FetchFailure ==
    \A c \in Callers :
        /\ (fetchLog[c] # <<>> /\ fetchLog[c][1] = "failed") =>
              /\ vpc[c] = "done"
              /\ vret[c] = Returned(FetchFailed)
              /\ vret[c].err.kind \notin {"nil", "validation", "concurrent"}
              /\ testeeCount[c] = 0
              /\ \A i \in 1 .. Len(req[c].answers) : evalCount[c][i] = 0
              /\ gpc[c] = <<>>
              /\ closer[c] = "unstarted"
        /\ (vret[c].returned /\ vret[c].err.kind \in {"validation", "concurrent"}) =>
              fetchLog[c] = <<"ok">>

\* a call with two answers on the concurrent service has returned the fetch
\* failure
C24_Witness ==
    /\ svc.strategy = "concurrent"
    /\ fetchLog[1] = <<"failed">>
    /\ Len(req[1].answers) = 2
    /\ vret[1].returned
    /\ vret[1].err.kind = "fetch"

(***************************************************************************)
(* AdapterFactory.CreateCalculationPort and the worker pool of the adapter *)
(* it returns.                                                             *)
(***************************************************************************)
\* concurrency := 10
DefaultConcurrency == 10

\* the documented upper end of the configurable range of workers
DocumentedMaxWorkers == 100

\* the adapter types handed to the factory: the two it names and one it does
\* not
AdapterTypes == {"serial", "concurrent", "other"}

\* the values handed as maxConcurrency: negative, zero, the ends of the
\* documented range, the default, and one above the range
ConcurrencyValues ==
    {-1, 0, 1, DefaultConcurrency, DocumentedMaxWorkers, DocumentedMaxWorkers + 1}

\* the variadic maxConcurrency ...int of one call
ArgLists == UNION { [1 .. n -> ConcurrencyValues] : n \in 0 .. MaxArgs }

\* NewSerialCalculationAdapter()
NewSerialCalculationAdapter == [adapterType |-> "serial", maxConcurrency |-> 0]

\* NewConcurrentCalculationAdapter(maxConcurrency)
NewConcurrentCalculationAdapter(concurrency) ==
    [adapterType |-> "concurrent", maxConcurrency |-> concurrency]

\* a variant of CreateCalculationPort that takes over every maxConcurrency
\* that is not negative
CreateCalculationPortFromZero(adapterType, args) ==
    CASE adapterType = "serial" -> NewSerialCalculationAdapter
      [] adapterType = "concurrent" ->
            NewConcurrentCalculationAdapter(
                IF Len(args) > 0 /\ args[1] >= 0 THEN args[1] ELSE DefaultConcurrency)
      [] OTHER -> NewSerialCalculationAdapter

\* func (f *AdapterFactory) CreateCalculationPort(adapterType AdapterType,
\*     maxConcurrency ...int) CalculationPort
CreateCalculationPort(adapterType, args) ==
    CASE adapterType = "serial" -> NewSerialCalculationAdapter
      [] adapterType = "concurrent" ->
            NewConcurrentCalculationAdapter(
                IF Len(args) > 0 /\ args[1] > 0 THEN args[1] ELSE DefaultConcurrency)
      [] OTHER -> NewSerialCalculationAdapter

\* port := factory.CreateCalculationPort(adapterType, maxConcurrency...)
CallCreateCalculationPort ==
    /\ portPc = "create"
    /\ \E adapterType \in AdapterTypes, args \in ArgLists :
         /\ portArgs' = [adapterType |-> adapterType, maxConcurrency |-> args]
         /\ port' = CreateCalculationPort(adapterType, args)
    /\ portPc' = "created"
    /\ UNCHANGED portWorkers
    /\ UNCHANGED <<earlierVars, abilityVars, handleVars, callsVars>>

\* port.CalculateBatch(ctx, requests) on a concurrent adapter and a batch that
\* is not empty reaches the loop that starts the workers
PortCalculateBatch ==
    /\ portPc = "created"
    /\ port.adapterType = "concurrent"
    /\ portPc' = "start"
    /\ UNCHANGED <<portArgs, port, portWorkers>>
    /\ UNCHANGED <<earlierVars, abilityVars, handleVars, callsVars>>

\* one iteration of for i := 0; i < a.maxConcurrency; i++ { go func(...) }
PortStartWorker ==
    /\ portPc = "start"
    /\ portWorkers < port.maxConcurrency
    /\ portWorkers' = portWorkers + 1
    /\ UNCHANGED <<portArgs, port, portPc>>
    /\ UNCHANGED <<earlierVars, abilityVars, handleVars, callsVars>>

\* the loop that starts the workers ends
PortStartDone ==
    /\ portPc = "start"
    /\ portWorkers >= port.maxConcurrency
    /\ portPc' = "started"
    /\ UNCHANGED <<portArgs, port, portWorkers>>
    /\ UNCHANGED <<earlierVars, abilityVars, handleVars, callsVars>>

NextFactory ==
    \/ CallCreateCalculationPort
    \/ PortCalculateBatch
    \/ PortStartWorker
    \/ PortStartDone

\* the factory is about to be called; nothing else is in use
InitFactory ==
    /\ portArgs = NoArgs
    /\ port = NoPort
    /\ portPc = "create"
    /\ portWorkers = 0
    /\ BatchParked
    /\ ChainParked
    /\ SerialParked
    /\ ValidationParked
    /\ CalculateParked
    /\ AbilityParked
    /\ HandleParked
    /\ CallsParked
    /\ LastParked

SpecFactory == InitFactory /\ [][NextFactory]_vars

\* C29: a port created for the concurrent adapter type has 10 as its
\* maxConcurrency when no maxConcurrency was passed or the one passed is zero
\* or negative, and the passed value otherwise; its CalculateBatch starts
\* that many workers.
C29_DefaultWorkers ==
    (portPc # "create" /\ portArgs.adapterType = "concurrent") =>
        LET args == portArgs.maxConcurrency
            expected == IF args = <<>> THEN 10
                        ELSE IF args[1] <= 0 THEN 10 ELSE args[1]
        IN  /\ port.adapterType = "concurrent"
            /\ port.maxConcurrency = expected
            /\ portWorkers <= expected
            /\ portPc = "started" => portWorkers = expected

\* the factory was handed the concurrent adapter type and maxConcurrency 0,
\* and the port's CalculateBatch has started ten workers
C29_Witness ==
    /\ portPc = "started"
    /\ portArgs.adapterType = "concurrent"
    /\ portArgs.maxConcurrency = <<0>>
    /\ port.maxConcurrency = 10
    /\ portWorkers = 10

\* C30: whatever maxConcurrency is passed to the factory, the concurrent
\* adapter it returns has between 1 and 100 workers: its maxConcurrency is
\* in that range and its CalculateBatch never has more than 100 workers
\* started.
C30_WorkerRange ==
    (portPc # "create" /\ port.adapterType = "concurrent") =>
        /\ port.maxConcurrency >= 1
        /\ port.maxConcurrency <= 100
        /\ portWorkers <= 100

(***************************************************************************)
(* ValidationAbility: the validation rules of a question and their         *)
(* application to an answer's value, as given in                           *)
(* docs/apiserver/01-问卷&答卷的设计与实现.md. An answer's value is a text of   *)
(* digits; the empty text is the value of an unanswered question.          *)
(***************************************************************************)
\* the rule types: the five validateRule knows, one more of the RuleType
\* constants, and one that is no RuleType constant
RuleTypes ==
    {"required", "min_length", "max_length", "min_value", "max_value",
     "min_selections", "pattern"}

\* the rule types validateRule has a case for
KnownRuleTypes == {"required", "min_length", "max_length", "min_value", "max_value"}

\* the target values of a rule, as the numbers their text stands for
TargetValues == {1, 2}

\* NewValidationRule(ruleType, targetValue)
NewValidationRule(ruleType, targetValue) ==
    [ruleType |-> ruleType, targetValue |-> targetValue]

ValidationRules ==
    { NewValidationRule(t, v) : t \in RuleTypes, v \in TargetValues }

\* the digits of an answer's text
Digits == {1, 2}

\* the values handed to Validate
Values == UNION { [1 .. n -> Digits] : n \in 0 .. MaxValueLen }

\* the number a text of digits stands for
RECURSIVE ParseNumber(_)
ParseNumber(text) ==
    IF text = <<>> THEN 0
    ELSE 10 * ParseNumber(SubSeq(text, 1, Len(text) - 1)) + text[Len(text)]

\* the error of a rule that the value violates
Violation(rule) ==
    [kind |-> "violation", ruleType |-> rule.ruleType,
     targetValue |-> rule.targetValue]

\* fmt.Errorf("unknown validation rule type: %s", rule.GetRuleType())
UnknownRuleType(rule) ==
    [kind |-> "unknown validation rule type", ruleType |-> rule.ruleType,
     targetValue |-> 0]

\* the outcome of a rule that is violated iff fails
Verdict(rule, fails) == IF fails THEN {Violation(rule)} ELSE {NoRuleError}

\* va.validateRequired(value): fails iff the value is empty
validateRequired(rule, value) == Verdict(rule, value = <<>>)

\* va.validateMinLength(target, value)
validateMinLength(rule, value) == Verdict(rule, Len(value) < rule.targetValue)

\* va.validateMaxLength(target, value)
validateMaxLength(rule, value) == Verdict(rule, Len(value) > rule.targetValue)

\* va.validateMinValue(target, value): the value is parsed as a number; the
\* outcome for a text that is no number is not determined
validateMinValue(rule, value) ==
    IF value = <<>> THEN {Violation(rule), NoRuleError}
    ELSE Verdict(rule, ParseNumber(value) < rule.targetValue)

\* va.validateMaxValue(target, value)
validateMaxValue(rule, value) ==
    IF value = <<>> THEN {Violation(rule), NoRuleError}
    ELSE Verdict(rule, ParseNumber(value) > rule.targetValue)

\* a variant of validateRule that lets a rule of a type without a case pass
validateRuleLenient(rule, value) ==
    CASE rule.ruleType = "required" -> validateRequired(rule, value)
      [] rule.ruleType = "min_length" -> validateMinLength(rule, value)
      [] rule.ruleType = "max_length" -> validateMaxLength(rule, value)
      [] rule.ruleType = "min_value" -> validateMinValue(rule, value)
      [] rule.ruleType = "max_value" -> validateMaxValue(rule, value)
      [] OTHER -> {NoRuleError}

\* func (va *ValidationAbility) validateRule(rule ValidationRule, value any)
\* error: the set of the errors the call may return
validateRule(rule, value) ==
    CASE rule.ruleType = "required" -> validateRequired(rule, value)
      [] rule.ruleType = "min_length" -> validateMinLength(rule, value)
      [] rule.ruleType = "max_length" -> validateMaxLength(rule, value)
      [] rule.ruleType = "min_value" -> validateMinValue(rule, value)
      [] rule.ruleType = "max_value" -> validateMaxValue(rule, value)
      [] OTHER -> {UnknownRuleType(rule)}

\* func (va *ValidationAbility) AddValidationRule(rule ValidationRule)
AddValidationRule ==
    /\ vaPc = "declare"
    /\ Len(vaRules) < MaxRules
    /\ \E rule \in ValidationRules : vaRules' = Append(vaRules, rule)
    /\ UNCHANGED <<vaValue, vaPc, vaPos, vaRet, vaEvals>>
    /\ UNCHANGED <<earlierVars, factoryVars, handleVars, callsVars>>

\* va.Validate(value) is called and reaches its range loop
CallValidate ==
    /\ vaPc = "declare"
    /\ \E value \in Values : vaValue' = value
    /\ vaPc' = "range"
    /\ vaPos' = 1
    /\ UNCHANGED <<vaRules, vaRet, vaEvals>>
    /\ UNCHANGED <<earlierVars, factoryVars, handleVars, callsVars>>

\* a variant of ValidateRange that goes on after a failing rule and returns
\* the error of the last rule that failed
ValidateRangeKeepLast ==
    /\ vaPc = "range"
    /\ vaPos <= Len(vaRules)
    /\ \E err \in validateRule(vaRules[vaPos], vaValue) :
         LET kept == IF err # NoRuleError THEN err ELSE vaRet.err
         IN  /\ vaEvals' = Append(vaEvals, [pos |-> vaPos, err |-> err])
             /\ IF vaPos = Len(vaRules) /\ kept # NoRuleError
                THEN /\ vaRet' = [returned |-> TRUE, err |-> kept]
                     /\ vaPc' = "done"
                     /\ UNCHANGED vaPos
                ELSE /\ vaRet' = [returned |-> FALSE, err |-> kept]
                     /\ vaPos' = vaPos + 1
                     /\ UNCHANGED vaPc
    /\ UNCHANGED <<vaRules, vaValue>>
    /\ UNCHANGED <<earlierVars, factoryVars, handleVars, callsVars>>

\* one iteration of Validate's loop:
\* if err := va.validateRule(rule, value); err != nil { return err }
ValidateRange ==
    /\ vaPc = "range"
    /\ vaPos <= Len(vaRules)
    /\ \E err \in validateRule(vaRules[vaPos], vaValue) :
         /\ vaEvals' = Append(vaEvals, [pos |-> vaPos, err |-> err])
         /\ IF err # NoRuleError
            THEN /\ vaRet' = [returned |-> TRUE, err |-> err]
                 /\ vaPc' = "done"
                 /\ UNCHANGED vaPos
            ELSE /\ vaPos' = vaPos + 1
                 /\ UNCHANGED <<vaPc, vaRet>>
    /\ UNCHANGED <<vaRules, vaValue>>
    /\ UNCHANGED <<earlierVars, factoryVars, handleVars, callsVars>>

\* the loop has ended: return nil
ValidateReturnNil ==
    /\ vaPc = "range"
    /\ vaPos > Len(vaRules)
    /\ vaRet' = [returned |-> TRUE, err |-> NoRuleError]
    /\ vaPc' = "done"
    /\ UNCHANGED <<vaRules, vaValue, vaPos, vaEvals>>
    /\ UNCHANGED <<earlierVars, factoryVars, handleVars, callsVars>>

NextAbility ==
    \/ AddValidationRule
    \/ CallValidate
    \/ ValidateRange
    \/ ValidateReturnNil

\* a question without validation rules; nothing else is in use
InitAbility ==
    /\ vaRules = <<>>
    /\ vaValue = <<>>
    /\ vaPc = "declare"
    /\ vaPos = 0
    /\ vaRet = NotValidatedYet
    /\ vaEvals = <<>>
    /\ BatchParked
    /\ ChainParked
    /\ SerialParked
    /\ ValidationParked
    /\ CalculateParked
    /\ FactoryParked
    /\ HandleParked
    /\ CallsParked
    /\ LastParked

SpecAbility == InitAbility /\ [][NextAbility]_vars

\* C25: Validate applies the rules in declaration order, each at most once,
\* and applies no rule after one that failed; when it returns an error, that
\* error is the violation the last applied rule reported, every rule declared
\* before it passed, and no rule declared after it was applied; when it
\* returns nil, every rule was applied and passed. For an empty value and a
\* first rule of type required, the result is the required violation and no
\* other rule was applied.
C25_RuleFailFast ==
    /\ \A k \in 1 .. Len(vaEvals) :
         /\ vaEvals[k].pos = k
         /\ vaEvals[k].err \in validateRule(vaRules[k], vaValue)
         /\ k < Len(vaEvals) => vaEvals[k].err = NoRuleError
    /\ vaRet.returned =>
         IF vaRet.err = NoRuleError
         THEN /\ Len(vaEvals) = Len(vaRules)
              /\ \A k \in 1 .. Len(vaEvals) : vaEvals[k].err = NoRuleError
         ELSE /\ Len(vaEvals) >= 1
              /\ vaRet.err = vaEvals[Len(vaEvals)].err
              /\ vaRet.err.ruleType = vaRules[Len(vaEvals)].ruleType
    /\ (vaRet.returned /\ vaValue = <<>> /\ Len(vaRules) >= 1
           /\ vaRules[1].ruleType = "required") =>
         /\ vaRet.err.kind = "violation"
         /\ vaRet.err.ruleType = "required"
         /\ Len(vaEvals) = 1

\* an unanswered question with the rules required and min_length 2, both of
\* which the empty value violates: Validate has returned the required
\* violation after one validateRule call
C25_Witness ==
    /\ vaRet.returned
    /\ vaValue = <<>>
    /\ Len(vaRules) = 2
    /\ vaRules[1].ruleType = "required"
    /\ vaRules[2] = NewValidationRule("min_length", 2)
    /\ vaRet.err.ruleType = "required"
    /\ Len(vaEvals) = 1

\* C26: a rule whose type validateRule has no case for never passes: each
\* validateRule call on such a rule returns the unknown-rule-type error
\* naming that type, Validate returns that error when it reaches the rule,
\* and Validate never returns nil for a rule list that holds such a rule.
C26_UnknownRuleFails ==
    /\ \A k \in 1 .. Len(vaEvals) :
         vaRules[vaEvals[k].pos].ruleType \notin KnownRuleTypes =>
            /\ vaEvals[k].err.kind = "unknown validation rule type"
            /\ vaEvals[k].err.ruleType = vaRules[vaEvals[k].pos].ruleType
            /\ (vaPc = "done" => vaRet = [returned |-> TRUE, err |-> vaEvals[k].err])
    /\ (vaRet.returned /\ vaRet.err = NoRuleError) =>
         \A k \in 1 .. Len(vaRules) : vaRules[k].ruleType \in KnownRuleTypes

\* the rules required and pattern on an answered question: Validate has
\* applied both and returned the unknown-rule-type error of pattern
C26_Witness ==
    /\ vaRet.returned
    /\ vaValue = <<1>>
    /\ Len(vaRules) = 2
    /\ vaRules[1].ruleType = "required"
    /\ vaRules[2].ruleType = "pattern"
    /\ Len(vaEvals) = 2
    /\ vaRet.err.kind = "unknown validation rule type"
    /\ vaRet.err.ruleType = "pattern"

(***************************************************************************)
(* The message handlers: CalcAnswersheetScoreHandler.Handle,               *)
(* GenerateInterpretReportHandler.Handle and                               *)
(* GenerateInterpretReportHandlerConcurrent.Handle. The clients that load  *)
(* and save are collaborators: each of their calls succeeds or fails. The  *)
(* concurrent handler's adapter has at least one worker.                   *)
(***************************************************************************)
HandlerKinds ==
    {"CalcAnswersheetScoreHandler", "GenerateInterpretReportHandler",
     "GenerateInterpretReportHandlerConcurrent"}

\* the handlers that generate an interpretation report
ReportKinds ==
    {"GenerateInterpretReportHandler", "GenerateInterpretReportHandlerConcurrent"}

\* message.Data["answersheet_id"]: no such key, a number, the empty string,
\* or the id of an answer sheet
MessageData ==
    {MissingField,
     [present |-> TRUE, isString |-> FALSE, text |-> "7"],
     [present |-> TRUE, isString |-> TRUE, text |-> ""],
     [present |-> TRUE, isString |-> TRUE, text |-> "as-1"]}

\* answersheetID, ok := message.Data["answersheet_id"].(string)
AssertString(data) ==
    [value |-> IF data.present /\ data.isString THEN data.text ELSE "",
     ok |-> data.present /\ data.isString]

\* the positions of the requests of a batch for which Calculate returns an error
FailingIndexes(batch) ==
    { i \in 0 .. (Len(batch) - 1) : Calculate(batch[i + 1]).err # "" }

\* the error of the serial adapter's CalculateBatch: that of the first request
\* for which Calculate returns one
SerialBatchError(batch) ==
    IF FailingIndexes(batch) = {}
    THEN {NoErr}
    ELSE LET i == CHOOSE j \in FailingIndexes(batch) :
                     \A k \in FailingIndexes(batch) : j <= k
         IN  {WrapIndex(i, Calculate(batch[i + 1]).err)}

\* the errors the concurrent adapter's CalculateBatch may return: that of any
\* request for which Calculate returns one
ConcurrentBatchErrors(batch) ==
    IF FailingIndexes(batch) = {}
    THEN {NoErr}
    ELSE { WrapIndex(i, Calculate(batch[i + 1]).err) : i \in FailingIndexes(batch) }

\* return fmt.Errorf(...)
HandleReturns(err) ==
    /\ hRet' = [returned |-> TRUE, err |-> err]
    /\ hPc' = "done"

\* a collaborator or CalculateBatch has been called
HandleDid(op, ok) == hOps' = Append(hOps, [op |-> op, ok |-> ok])

\* a variant of HandleExtract that goes on with the zero value of the failed
\* type assertion
HandleExtractZeroValue ==
    /\ hPc = "handle"
    /\ hPc' = "loadAnswersheet"
    /\ UNCHANGED <<hKind, hData, hRequests, hRet, hOps, hStore>>
    /\ UNCHANGED <<earlierVars, factoryVars, abilityVars, callsVars>>

\* answersheetID, ok := message.Data["answersheet_id"].(string)
\* if !ok { return fmt.Errorf("消息中缺少 answersheet_id 字段") }
HandleExtract ==
    /\ hPc = "handle"
    /\ IF AssertString(hData).ok
       THEN hPc' = "loadAnswersheet" /\ UNCHANGED hRet
       ELSE HandleReturns("missing answersheet_id")
    /\ UNCHANGED <<hKind, hData, hRequests, hOps, hStore>>
    /\ UNCHANGED <<earlierVars, factoryVars, abilityVars, callsVars>>

\* a variant of LoadAnswersheet that calls the client once more after a
\* first failure
LoadAnswersheetRetry ==
    /\ hPc = "loadAnswersheet"
    /\ \E ok \in BOOLEAN :
         /\ HandleDid("loadAnswersheet", ok)
         /\ IF ok
            THEN hPc' = "loadSecond" /\ UNCHANGED hRet
            ELSE IF hOps = <<>>
                 THEN UNCHANGED <<hPc, hRet>>
                 ELSE HandleReturns("load answersheet failed")
    /\ UNCHANGED <<hKind, hData, hRequests, hStore>>
    /\ UNCHANGED <<earlierVars, factoryVars, abilityVars, callsVars>>

\* answersheet, err := h.loadAnswersheet(ctx, answersheetID)
\* if err != nil { return fmt.Errorf("加载答卷失败: %w", err) }
LoadAnswersheet ==
    /\ hPc = "loadAnswersheet"
    /\ \E ok \in BOOLEAN :
         /\ HandleDid("loadAnswersheet", ok)
         /\ IF ok
            THEN hPc' = "loadSecond" /\ UNCHANGED hRet
            ELSE HandleReturns("load answersheet failed")
    /\ UNCHANGED <<hKind, hData, hRequests, hStore>>
    /\ UNCHANGED <<earlierVars, factoryVars, abilityVars, callsVars>>

\* the second load and, when it succeeds, the conversion to calculation
\* requests, which calls no collaborator
LoadAndConvert(op, failure) ==
    /\ hPc = "loadSecond"
    /\ \E ok \in BOOLEAN :
         /\ HandleDid(op, ok)
         /\ IF ok
            THEN /\ \E n \in 0 .. MaxBatch : hRequests' \in Batches(n)
                 /\ hPc' = "calculate"
                 /\ UNCHANGED hRet
            ELSE /\ HandleReturns(failure)
                 /\ UNCHANGED hRequests
    /\ UNCHANGED <<hKind, hData, hStore>>
    /\ UNCHANGED <<earlierVars, factoryVars, abilityVars, callsVars>>

\* CalcAnswersheetScoreHandler:
\* questionnaire, err := h.loadQuestionnaire(ctx, answersheet.QuestionnaireID)
\* if err != nil { return fmt.Errorf("加载问卷失败: %w", err) }
\* requests := h.convertAnswerBatchCalculation(answersheet, questionnaire)
LoadQuestionnaire ==
    /\ hKind = "CalcAnswersheetScoreHandler"
    /\ LoadAndConvert("loadQuestionnaire", "load questionnaire failed")

\* the report handlers:
\* medicalScale, err := h.loadMedicalScale(ctx, answersheet.MedicalScaleID)
\* if err != nil { return fmt.Errorf("加载医学量表失败: %w", err) }
\* answerMap := h.buildAnswerMap(answersheet)
\* requests := h.convertFactorBatchCalculation(medicalScale, answerMap)
LoadMedicalScale ==
    /\ hKind \in ReportKinds
    /\ LoadAndConvert("loadMedicalScale", "load medical scale failed")

\* the position after a successful CalculateBatch
AfterCalculateBatch ==
    IF hKind = "CalcAnswersheetScoreHandler" THEN "save" ELSE "generate"

\* a variant of HandleCalculateBatch that goes on after a failed CalculateBatch
HandleCalculateBatchIgnoreError ==
    /\ hPc = "calculate"
    /\ \E err \in IF hKind = "GenerateInterpretReportHandlerConcurrent"
                  THEN ConcurrentBatchErrors(hRequests)
                  ELSE SerialBatchError(hRequests) :
         HandleDid("CalculateBatch", ~err.isErr)
    /\ hPc' = AfterCalculateBatch
    /\ UNCHANGED <<hKind, hData, hRequests, hRet, hStore>>
    /\ UNCHANGED <<earlierVars, factoryVars, abilityVars, callsVars>>

\* results, err := calculationPort.CalculateBatch(ctx, requests)
\* if err != nil { return fmt.Errorf("计算失败: %w", err) }
\* on the serial port, or on the concurrent port for the concurrent handler
HandleCalculateBatch ==
    /\ hPc = "calculate"
    /\ \E err \in IF hKind = "GenerateInterpretReportHandlerConcurrent"
                  THEN ConcurrentBatchErrors(hRequests)
                  ELSE SerialBatchError(hRequests) :
         /\ HandleDid("CalculateBatch", ~err.isErr)
         /\ IF err.isErr
            THEN HandleReturns("calculation failed")
            ELSE hPc' = AfterCalculateBatch /\ UNCHANGED hRet
    /\ UNCHANGED <<hKind, hData, hRequests, hStore>>
    /\ UNCHANGED <<earlierVars, factoryVars, abilityVars, callsVars>>

\* report, err := h.generateInterpretReport(answersheet, medicalScale, results)
\* if err != nil { return fmt.Errorf("生成解读报告失败: %w", err) }
GenerateInterpretReport ==
    /\ hPc = "generate"
    /\ \E ok \in BOOLEAN :
         /\ HandleDid("generateInterpretReport", ok)
         /\ IF ok
            THEN hPc' = "save" /\ UNCHANGED hRet
            ELSE HandleReturns("generate report failed")
    /\ UNCHANGED <<hKind, hData, hRequests, hStore>>
    /\ UNCHANGED <<earlierVars, factoryVars, abilityVars, callsVars>>

\* the save call and the return that follows it; a save that fails has
\* persisted nothing
SaveAndReturn(op, failure) ==
    /\ hPc = "save"
    /\ \E ok \in BOOLEAN :
         /\ HandleDid(op, ok)
         /\ IF ok
            THEN /\ hStore' = Append(hStore,
                                     [handler |-> hKind,
                                      answersheetID |-> AssertString(hData).value,
                                      count |-> Len(hRequests)])
                 /\ HandleReturns("")
            ELSE /\ HandleReturns(failure)
                 /\ UNCHANGED hStore
    /\ UNCHANGED <<hKind, hData, hRequests>>
    /\ UNCHANGED <<earlierVars, factoryVars, abilityVars, callsVars>>

\* if err := h.saveCalculationResults(ctx, answersheetID, results); err != nil {
\*     return fmt.Errorf("保存计算结果失败: %w", err) }
\* return nil
SaveCalculationResults ==
    /\ hKind = "CalcAnswersheetScoreHandler"
    /\ SaveAndReturn("saveCalculationResults", "save results failed")

\* if err := h.saveInterpretReport(ctx, report); err != nil {
\*     return fmt.Errorf("保存解读报告失败: %w", err) }
\* return nil
SaveInterpretReport ==
    /\ hKind \in ReportKinds
    /\ SaveAndReturn("saveInterpretReport", "save report failed")

NextHandle ==
    \/ HandleExtract
    \/ LoadAnswersheet
    \/ LoadQuestionnaire
    \/ LoadMedicalScale
    \/ HandleCalculateBatch
    \/ GenerateInterpretReport
    \/ SaveCalculationResults
    \/ SaveInterpretReport

\* handler.Handle(ctx, message) is called on one of the three handlers
CallHandle ==
    /\ hKind \in HandlerKinds
    /\ hData \in MessageData
    /\ hPc = "handle"
    /\ hRequests = <<>>
    /\ hRet = NotHandled
    /\ hOps = <<>>
    /\ hStore = <<>>

\* one Handle call; nothing else is in use
InitHandle ==
    /\ CallHandle
    /\ BatchParked
    /\ ChainParked
    /\ SerialParked
    /\ ValidationParked
    /\ CalculateParked
    /\ FactoryParked
    /\ AbilityParked
    /\ CallsParked
    /\ LastParked

SpecHandle == InitHandle /\ [][NextHandle]_vars

\* the operations of hOps that succeeded
Succeeded == { hOps[k].op : k \in { j \in 1 .. Len(hOps) : hOps[j].ok } }

\* C21: when message.Data has no answersheet_id or its value is no string,
\* Handle of each of the three handlers has, once past the extraction step,
\* returned the missing-field error without a single collaborator or
\* CalculateBatch call, and nothing is persisted.
C21_MissingIdReturnsAtOnce ==
    (hPc \notin {"parked", "handle"} /\ ~(hData.present /\ hData.isString)) =>
        /\ hPc = "done"
        /\ hRet = [returned |-> TRUE, err |-> "missing answersheet_id"]
        /\ hOps = <<>>
        /\ hRequests = <<>>
        /\ hStore = <<>>

\* the report handler has returned the missing-field error for a message whose
\* answersheet_id is a number
C21_Witness ==
    /\ hKind = "GenerateInterpretReportHandler"
    /\ hData.present
    /\ ~hData.isString
    /\ hRet.returned
    /\ hRet.err = "missing answersheet_id"
    /\ hOps = <<>>

\* C22: Handle persists at most once; what it persists is persisted by the
\* successful save call that ends it, after the answer sheet load, the
\* questionnaire or medical-scale load and CalculateBatch have all succeeded;
\* when any load, CalculateBatch, the report generation or the save has
\* failed, Handle has returned an error and nothing is persisted.
C22_PersistOnceAfterSuccess ==
    /\ Len(hStore) <= 1
    /\ hStore # <<>> =>
          /\ hRet = [returned |-> TRUE, err |-> ""]
          /\ "loadAnswersheet" \in Succeeded
          /\ "CalculateBatch" \in Succeeded
          /\ IF hKind = "CalcAnswersheetScoreHandler"
             THEN /\ "loadQuestionnaire" \in Succeeded
                  /\ hOps[Len(hOps)].op = "saveCalculationResults"
             ELSE /\ "loadMedicalScale" \in Succeeded
                  /\ "generateInterpretReport" \in Succeeded
                  /\ hOps[Len(hOps)].op = "saveInterpretReport"
          /\ \A k \in 1 .. Len(hOps) : hOps[k].ok
          /\ FailingIndexes(hRequests) = {}
    /\ (\E k \in 1 .. Len(hOps) : ~hOps[k].ok) =>
          /\ hRet.returned
          /\ hRet.err # ""
          /\ hStore = <<>>
    /\ (hRet.returned /\ hRet.err = "") => Len(hStore) = 1

\* the concurrent report handler has returned the calculation error for a
\* batch of two requests the second of which fails, after both loads
\* succeeded, and has persisted nothing
C22_Witness ==
    /\ hKind = "GenerateInterpretReportHandlerConcurrent"
    /\ Len(hRequests) = 2
    /\ FailingIndexes(hRequests) = {1}
    /\ Len(hOps) = 3
    /\ hOps[3] = [op |-> "CalculateBatch", ok |-> FALSE]
    /\ hRet.returned
    /\ hRet.err = "calculation failed"
    /\ hStore = <<>>

(***************************************************************************)
(* One operation of the three that call collaborators or Calculate: a      *)
(* Handle call, a ValidateAnswersheet service with its calls, or a serial  *)
(* CalculateBatch call.                                                    *)
(***************************************************************************)
NextOperation ==
    \/ NextHandle
    \/ NextValidation
    \/ NextSerial

\* one of the three operations is about to run; nothing else is in use
InitOperation ==
    /\ \/ CallHandle /\ ValidationParked /\ SerialParked
       \/ HandleParked /\ NewValidationService /\ SerialParked
       \/ HandleParked /\ ValidationParked /\ CallSerialCalculateBatch
    /\ BatchParked
    /\ ChainParked
    /\ CalculateParked
    /\ FactoryParked
    /\ AbilityParked
    /\ CallsParked
    /\ LastParked

SpecOperation == InitOperation /\ [][NextOperation]_vars

CallRequests ==
    {NilRequest} \cup
    [isNil : {FALSE}, id : {1}, formulaType : {"sum", "median"},
     operands : {<<1>>, <<1, 2>>}, precision : {0}, roundingMode : {""}]

\* a goroutine calls Calculate(ctx, request): the nil check and the rule; the
\* goroutines are numbered in the order of their calls
CalculateBegin(c) ==
    /\ cPc[c] = "idle"
    /\ \A d \in Calculators : d < c => cPc[d] # "idle"
    /\ \E request \in CallRequests :
         /\ cReq' = [cReq EXCEPT ![c] = request]
         /\ IF request.isNil
            THEN /\ cOut' = [cOut EXCEPT ![c] = PortCalculate(request)]
                 /\ cPc' = [cPc EXCEPT ![c] = "done"]
                 /\ UNCHANGED cRule
            ELSE LET made == createCalculationRule(request)
                 IN  IF made.err # ""
                     THEN /\ cOut' = [cOut EXCEPT ![c] =
                                        [returned |-> TRUE, isNilResult |-> FALSE,
                                         id |-> request.id,
                                         strategy |-> made.rule.strategyName,
                                         value |-> ZeroValue,
                                         error |-> made.err, err |-> ""]]
                          /\ cPc' = [cPc EXCEPT ![c] = "done"]
                          /\ UNCHANGED cRule
                     ELSE /\ cRule' = [cRule EXCEPT ![c] = made.rule]
                          /\ cPc' = [cPc EXCEPT ![c] = "engine"]
                          /\ UNCHANGED cOut
    /\ UNCHANGED <<earlierVars, factoryVars, abilityVars, handleVars>>

\* the engine calculates with the call's rule and operands, and Calculate
\* returns the result
CalculateEngine(c) ==
    /\ cPc[c] = "engine"
    /\ cOut' = [cOut EXCEPT ![c] =
                  [returned |-> TRUE, isNilResult |-> FALSE, id |-> cReq[c].id,
                   strategy |-> cRule[c].strategyName,
                   value |-> EngineValue(cRule[c], cReq[c].operands),
                   error |-> EngineCalculate(cRule[c], cReq[c].operands),
                   err |-> ""]]
    /\ cPc' = [cPc EXCEPT ![c] = "done"]
    /\ UNCHANGED <<cReq, cRule>>
    /\ UNCHANGED <<earlierVars, factoryVars, abilityVars, handleVars>>

NextCalls ==
    \/ \E c \in Calculators : CalculateBegin(c)
    \/ \E c \in Calculators : CalculateEngine(c)

\* one adapter and MaxCalculations goroutines that have not called it yet;
\* nothing else is in use
InitCalls ==
    /\ cReq = [c \in Calculators |-> NilRequest]
    /\ cPc = [c \in Calculators |-> "idle"]
    /\ cRule = [c \in Calculators |-> NoRule]
    /\ cOut = [c \in Calculators |-> NotCalled]
    /\ BatchParked
    /\ ChainParked
    /\ SerialParked
    /\ ValidationParked
    /\ CalculateParked
    /\ FactoryParked
    /\ AbilityParked
    /\ HandleParked
    /\ LastParked

SpecCalls == InitCalls /\ [][NextCalls]_vars

MaxSumOperands == 4

\* the values an operand of a sum request takes
SumOperandValues == {-1, 1, 2, 3, 4}

\* the requests of the sum formula: every operand list of at most
\* MaxSumOperands operands, the empty one included
SumRequests ==
    [isNil : {FALSE}, id : {1}, formulaType : {"sum"},
     operands : UNION { [1 .. n -> SumOperandValues] : n \in 0 .. MaxSumOperands },
     precision : {0}, roundingMode : {""}]

\* one sum request is about to be handed to Calculate
InitSum ==
    /\ callRequest \in SumRequests
    /\ callOut = NotCalled
    /\ BatchParked
    /\ SerialParked
    /\ ChainParked
    /\ ValidationParked
    /\ LaterParked

SpecSum == InitSum /\ [][CallCalculate]_vars

\* C31: Calculate on a sum request returns no error and the value that is
\* the arithmetic sum of all the operands: 10 for [1,2,3,4], 6 for [1,2,3],
\* and 0, without error, for the empty operand list.
C31_SumOfOperands ==
    (callOut.returned /\ ~callRequest.isNil /\ callRequest.formulaType = "sum") =>
        LET ops == callRequest.operands
            partial[k \in 0 .. Len(ops)] ==
                IF k = 0 THEN 0 ELSE partial[k - 1] + ops[k]
        IN  /\ callOut.err = ""
            /\ callOut.error = ""
            /\ callOut.value = [num |-> partial[Len(ops)], den |-> 1]
            /\ ops = <<1, 2, 3, 4>> => callOut.value.num = 10
            /\ ops = <<1, 2, 3>> => callOut.value.num = 6
            /\ ops = <<>> => callOut.value.num = 0

\* the sum of [1,2,3,4] was returned as 10 without error
C31_Witness ==
    /\ callOut.returned
    /\ callRequest.formulaType = "sum"
    /\ callRequest.operands = <<1, 2, 3, 4>>
    /\ callOut.value = [num |-> 10, den |-> 1]
    /\ callOut.error = ""
    /\ callOut.err = ""

(***************************************************************************)
(* The two report handlers, GenerateInterpretReportHandler.Handle and      *)
(* GenerateInterpretReportHandlerConcurrent.Handle, called one after the   *)
(* other on the same message with the same collaborator data: the answer   *)
(* sheet, the medical scale with its factors, and the one collaborator     *)
(* call, if any, that fails. Each call saves into its own copy of the      *)
(* report store.                                                           *)
(***************************************************************************)
\* the most factors of a medical scale
MaxFactors == 2

\* the answers a factor's source questions carry
FactorOperandValues == {6, 10}

\* the requests convertFactorBatchCalculation builds for a factor: none, or
\* the sum of at most two answers
FactorRequests ==
    {NilRequest} \cup
    [isNil : {FALSE}, id : {1}, formulaType : {"sum"},
     operands : UNION { [1 .. n -> FactorOperandValues] : n \in 0 .. 2 },
     precision : {0}, roundingMode : {""}]

\* the interpretation rules of a factor: InterpretationRule{ScoreRange{
\* min_score, max_score}, content}
InterpretationRules ==
    <<[min |-> 0, max |-> 10, content |-> "Normal"],
      [min |-> 10, max |-> 20, content |-> "Elevated"]>>

\* the medical scales of n factors, the i-th with code i
MedicalScales(n) ==
    { [i \in 1 .. n |-> [code |-> i, request |-> f[i], rules |-> InterpretationRules]] :
          f \in [1 .. n -> FactorRequests] }

\* the collaborator call that fails, if any
ReportFailures ==
    {"none", "loadAnswersheet", "loadMedicalScale", "generateInterpretReport",
     "saveInterpretReport"}

\* the values the concurrent handler's maxConcurrency field takes
HandlerConcurrencyValues == {0, 2}

\* a report handler before Handle is called
NotRun == [pc |-> "handle", stage |-> "", err |-> "", results |-> <<>>,
           report |-> <<>>, saved |-> <<>>]

\* the serial handler is called first
SerialKind == "GenerateInterpretReportHandler"
ConcurrentKind == "GenerateInterpretReportHandlerConcurrent"

\* calculationapp.GetSerialCalculationPort()
GetSerialCalculationPort == CreateCalculationPort("serial", <<>>)

\* calculationapp.GetConcurrentCalculationPort(maxConcurrency)
GetConcurrentCalculationPort(concurrency) ==
    CreateCalculationPort("concurrent", <<concurrency>>)

\* the score range [min, max) of the rule contains the score num/den
InRange(score, rule) ==
    /\ rule.min * score.den <= score.num
    /\ score.num < rule.max * score.den

\* the interpretation text of a score: the content of the first rule whose
\* score range contains it, the empty text when there is none
InterpretContent(score, rules) ==
    LET matching == { k \in 1 .. Len(rules) : InRange(score, rules[k]) }
    IN  IF matching = {} THEN ""
        ELSE rules[CHOOSE k \in matching : \A j \in matching : k <= j].content

\* a variant of InterpretContent whose score ranges include their max
InterpretContentClosed(score, rules) ==
    LET matching == { k \in 1 .. Len(rules) :
                          /\ rules[k].min * score.den <= score.num
                          /\ score.num <= rules[k].max * score.den }
    IN  IF matching = {} THEN ""
        ELSE rules[CHOOSE k \in matching : \A j \in matching : k <= j].content

\* h.generateInterpretReport(ctx, answersheet, medicalScale, results): one
\* InterpretItem per factor, in the order of the factors
InterpretReport(factors, calculated) ==
    [i \in 1 .. Len(factors) |->
        [factorCode |-> factors[i].code,
         score |-> calculated[i].value,
         content |-> InterpretContent(calculated[i].value, factors[i].rules)]]

\* the handler h has returned err at the stage
ReportReturns(h, stage, err) ==
    reportRun' = [reportRun EXCEPT ![h].pc = "done", ![h].stage = stage,
                                   ![h].err = err]

\* the handler h goes on to the next step
ReportGoes(h, pc) == reportRun' = [reportRun EXCEPT ![h].pc = pc]

\* it is the turn of handler h, which is at pc
ReportAt(h, pc) ==
    /\ reportRun[h].pc = pc
    /\ h = ConcurrentKind => reportRun[SerialKind].pc = "done"

\* answersheetID, ok := message.Data["answersheet_id"].(string)
\* if !ok { return fmt.Errorf("消息中缺少 answersheet_id 字段") }
ReportExtract(h) ==
    /\ ReportAt(h, "handle")
    /\ IF AssertString(reportInput.data).ok
       THEN ReportGoes(h, "loadAnswersheet")
       ELSE ReportReturns(h, "handle", "missing answersheet_id")
    /\ UNCHANGED <<reportInput, settledVars, modes, registry, container, repo, version>>

\* answersheet, err := h.loadAnswersheet(ctx, answersheetID)
\* if err != nil { return fmt.Errorf("加载答卷失败: %w", err) }
ReportLoadAnswersheet(h) ==
    /\ ReportAt(h, "loadAnswersheet")
    /\ IF reportInput.failure # "loadAnswersheet"
       THEN ReportGoes(h, "loadMedicalScale")
       ELSE ReportReturns(h, "loadAnswersheet", "load answersheet failed")
    /\ UNCHANGED <<reportInput, settledVars, modes, registry, container, repo, version>>

\* medicalScale, err := h.loadMedicalScale(ctx, answersheet.MedicalScaleID)
\* if err != nil { return fmt.Errorf("加载医学量表失败: %w", err) }
\* answerMap := h.buildAnswerMap(answersheet)
\* requests := h.convertFactorBatchCalculation(medicalScale, answerMap)
ReportLoadMedicalScale(h) ==
    /\ ReportAt(h, "loadMedicalScale")
    /\ IF reportInput.failure # "loadMedicalScale"
       THEN ReportGoes(h, "calculate")
       ELSE ReportReturns(h, "loadMedicalScale", "load medical scale failed")
    /\ UNCHANGED <<reportInput, settledVars, modes, registry, container, repo, version>>

\* the requests of the factors, in the order of the factors
FactorBatch == [i \in 1 .. Len(reportInput.factors) |-> reportInput.factors[i].request]

\* the port the handler h calculates on
ReportPort(h) ==
    IF h = ConcurrentKind
    THEN GetConcurrentCalculationPort(reportInput.maxConcurrency)
    ELSE GetSerialCalculationPort

\* the results of a CalculateBatch without error: the i-th is that of the
\* i-th request, on either port
BatchResults(batch) == [i \in 1 .. Len(batch) |-> PortCalculate(batch[i])]

\* a variant of ReportCalculateBatch in which the concurrent port hands back
\* the results in the order the workers finish them, the last request first
ReportCalculateBatchUnordered(h) ==
    /\ ReportAt(h, "calculate")
    /\ \E err \in IF ReportPort(h).adapterType = "concurrent"
                  THEN ConcurrentBatchErrors(FactorBatch)
                  ELSE SerialBatchError(FactorBatch) :
         IF err.isErr
         THEN ReportReturns(h, "calculate", "factor calculation failed")
         ELSE reportRun' =
                  [reportRun EXCEPT
                      ![h].pc = "generate",
                      ![h].results =
                          IF h = ConcurrentKind
                          THEN [i \in 1 .. Len(FactorBatch) |->
                                   BatchResults(FactorBatch)[Len(FactorBatch) + 1 - i]]
                          ELSE BatchResults(FactorBatch)]
    /\ UNCHANGED <<reportInput, settledVars, modes, registry, container, repo, version>>

\* calculationPort := calculationapp.GetSerialCalculationPort()
\*   (the concurrent handler: GetConcurrentCalculationPort(h.maxConcurrency))
\* results, err := calculationPort.CalculateBatch(ctx, requests)
\* if err != nil { return fmt.Errorf("因子计算失败: %w", err) }
\*   (the concurrent handler: "并发因子计算失败: %w")
\* A concurrent port returns from a non-empty batch only if it has a worker.
ReportCalculateBatch(h) ==
    /\ ReportAt(h, "calculate")
    /\ ReportPort(h).adapterType = "concurrent" =>
          (FactorBatch = <<>> \/ ReportPort(h).maxConcurrency > 0)
    /\ \E err \in IF ReportPort(h).adapterType = "concurrent"
                  THEN ConcurrentBatchErrors(FactorBatch)
                  ELSE SerialBatchError(FactorBatch) :
         IF err.isErr
         THEN ReportReturns(h, "calculate",
                            IF h = ConcurrentKind
                            THEN "concurrent factor calculation failed"
                            ELSE "factor calculation failed")
         ELSE reportRun' = [reportRun EXCEPT ![h].pc = "generate",
                                             ![h].results = BatchResults(FactorBatch)]
    /\ UNCHANGED <<reportInput, settledVars, modes, registry, container, repo, version>>

\* a variant of ReportGenerate that takes the score ranges as closed
ReportGenerateClosedRange(h) ==
    /\ ReportAt(h, "generate")
    /\ IF reportInput.failure # "generateInterpretReport"
       THEN reportRun' =
                [reportRun EXCEPT
                    ![h].pc = "save",
                    ![h].report =
                        [i \in 1 .. Len(reportInput.factors) |->
                            [factorCode |-> reportInput.factors[i].code,
                             score |-> reportRun[h].results[i].value,
                             content |-> InterpretContentClosed(
                                             reportRun[h].results[i].value,
                                             reportInput.factors[i].rules)]]]
       ELSE ReportReturns(h, "generate", "generate report failed")
    /\ UNCHANGED <<reportInput, settledVars, modes, registry, container, repo, version>>

\* report, err := h.generateInterpretReport(ctx, answersheet, medicalScale, results)
\* if err != nil { return fmt.Errorf("生成解读报告失败: %w", err) }
ReportGenerate(h) ==
    /\ ReportAt(h, "generate")
    /\ IF reportInput.failure # "generateInterpretReport"
       THEN reportRun' =
                [reportRun EXCEPT
                    ![h].pc = "save",
                    ![h].report = InterpretReport(reportInput.factors,
                                                  reportRun[h].results)]
       ELSE ReportReturns(h, "generate", "generate report failed")
    /\ UNCHANGED <<reportInput, settledVars, modes, registry, container, repo, version>>

\* err = h.saveInterpretReport(ctx, report)
\* if err != nil { return fmt.Errorf("保存解读报告失败: %w", err) }
\* return nil
ReportSave(h) ==
    /\ ReportAt(h, "save")
    /\ IF reportInput.failure # "saveInterpretReport"
       THEN reportRun' =
                [reportRun EXCEPT
                    ![h].pc = "done", ![h].stage = "returned", ![h].err = "",
                    ![h].saved = <<[answersheetID |-> AssertString(reportInput.data).value,
                                    items |-> reportRun[h].report]>>]
       ELSE ReportReturns(h, "save", "save report failed")
    /\ UNCHANGED <<reportInput, settledVars, modes, registry, container, repo, version>>

NextReport ==
    \E h \in ReportKinds :
        \/ ReportExtract(h)
        \/ ReportLoadAnswersheet(h)
        \/ ReportLoadMedicalScale(h)
        \/ ReportCalculateBatch(h)
        \/ ReportGenerate(h)
        \/ ReportSave(h)

\* both handlers are about to be called on one message
InitReport ==
    /\ reportInput \in
          [data : {MissingField, [present |-> TRUE, isString |-> TRUE, text |-> "as-1"]},
           failure : ReportFailures,
           maxConcurrency : HandlerConcurrencyValues,
           factors : UNION { MedicalScales(n) : n \in 0 .. MaxFactors }]
    /\ reportRun = [h \in ReportKinds |-> NotRun]
    /\ ModesParked
    /\ RegistryParked
    /\ ContainerParked
    /\ RepoParked
    /\ VersionParked
    /\ BatchParked
    /\ ChainParked
    /\ SerialParked
    /\ ValidationParked
    /\ CalculateParked
    /\ FactoryParked
    /\ AbilityParked
    /\ HandleParked
    /\ CallsParked

SpecReport == InitReport /\ [][NextReport]_vars

\* the handlers that have generated a report
Generated == { h \in ReportKinds : reportRun[h].pc \in {"save", "done"}
                                   /\ reportRun[h].stage \in {"", "save", "returned"} }

\* C32: in a generated report the interpretation text of each factor is the
\* content of the rule whose half-open score range [min, max) contains the
\* factor's score: a score equal to a range's min selects that range, a
\* score equal to its max does not; with [0,10) -> Normal and
\* [10,20) -> Elevated a score of 12 yields Elevated.
C32_HalfOpenRange ==
    \A h \in Generated :
        /\ Len(reportRun[h].report) = Len(reportInput.factors)
        /\ \A i \in 1 .. Len(reportRun[h].report) :
              LET item == reportRun[h].report[i]
                  rules == reportInput.factors[i].rules
                  score == SumStrategy(reportInput.factors[i].request.operands)
              IN  /\ item.score = [num |-> score, den |-> 1]
                  /\ \A k \in 1 .. Len(rules) :
                        /\ (rules[k].min <= score /\ score < rules[k].max)
                              => item.content = rules[k].content
                        /\ score = rules[k].min => item.content = rules[k].content
                        /\ score = rules[k].max => item.content # rules[k].content
                  /\ score = 12 => item.content = "Elevated"

\* a report with a factor of score 12 read as Elevated and a factor of
\* score 10, the max of Normal and the min of Elevated, read as Elevated
\* has been saved
C32_Witness ==
    \E h \in ReportKinds :
        /\ reportRun[h].saved # <<>>
        /\ Len(reportRun[h].saved[1].items) = 2
        /\ reportRun[h].saved[1].items[1].score.num = 12
        /\ reportRun[h].saved[1].items[1].content = "Elevated"
        /\ reportRun[h].saved[1].items[2].score.num = 10
        /\ reportRun[h].saved[1].items[2].content = "Elevated"

FairSpecValidation ==
    /\ InitValidation
    /\ [][NextValidation]_vars
    /\ WF_vars(NextValidation)

\* C34: every ValidateAnswersheet call on a ConcurrentService eventually
\* returns, for every answer list and for every max_concurrency the
\* configuration hands to NewValidationService, 0 included; no validation
\* goroutine blocks forever on the semaphore.
C34_ConcurrentReturns ==
    \A c \in Callers :
        (svc.strategy = "concurrent" /\ vpc[c] = "fetch") ~> (vpc[c] = "done")

\* every call on a ConcurrentService whose maxConcurrency is at least 1
\* eventually returns
C34_ReturnsWithPermits ==
    \A c \in Callers :
        (svc.strategy = "concurrent" /\ svc.maxConcurrency >= 1 /\ vpc[c] = "fetch")
            ~> (vpc[c] = "done")

\* a goroutine of a call on a ConcurrentService with maxConcurrency 0 waits
\* at the semaphore while the caller waits at range errorChan
C34_Blocked ==
    \E c \in Callers :
        /\ svc.strategy = "concurrent"
        /\ svc.maxConcurrency = 0
        /\ vpc[c] = "collect"
        /\ Len(req[c].answers) > 0
        /\ \A i \in 1 .. Len(req[c].answers) : gpc[c][i] = "acquire"
        /\ closer[c] = "waiting"

(***************************************************************************)
(* SequentialService.ValidateAnswersheet and                               *)
(* ConcurrentService.ValidateAnswersheet on the same request and the same  *)
(* questionnaire metadata. Each call is taken as a whole: the sequential   *)
(* one stops at the first defect, the concurrent one validates every       *)
(* answer and returns once all its goroutines have finished.               *)
(***************************************************************************)
\* the requests: an answer sheet and testee metadata that is valid or not
ModeRequests ==
    [answers : UNION { Sheets(n) : n \in 0 .. MaxAnswers }, testeeOk : BOOLEAN]

\* the positions of the invalid answers of a request
InvalidAnswers(request) ==
    { i \in 1 .. Len(request.answers) : ValidateAnswer(request.answers[i]) # NilError }

\* s.validator.ValidateSubmitRequest(ctx, submitRequest, questionnaireInfo):
\* the testee metadata, then the answers up to the first invalid one
SubmitRequestError(request) ==
    IF ~request.testeeOk
    THEN TesteeError
    ELSE IF InvalidAnswers(request) = {}
         THEN NilError
         ELSE AnswerError(request.answers[Lowest(InvalidAnswers(request))])

\* func (s *SequentialService) ValidateAnswersheet(ctx, req) error
SequentialValidateAnswersheet ==
    /\ ~modes.sequential.returned
    /\ modes' =
          [modes EXCEPT !.sequential =
              IF ~modes.fetchOk
              THEN Returned(FetchFailed)
              ELSE IF SubmitRequestError(modes.request) # NilError
                   THEN Returned(ValidationFailed(SubmitRequestError(modes.request)))
                   ELSE Returned(NilError)]
    /\ UNCHANGED <<settledVars, reportVars, registry, container, repo, version>>

\* func (s *ConcurrentService) ValidateAnswersheet(ctx, req) error, with
\* validateConcurrently: one goroutine for each answer of req.Answers, and
\* nothing else of the request is validated; errors[0] is the error of the
\* goroutine that sent first. With maxConcurrency 0 no goroutine gets past
\* the semaphore and the call does not return.
ConcurrentValidateAnswersheet ==
    /\ ~modes.concurrent.returned
    /\ \/ ~modes.fetchOk
       \/ modes.request.answers = <<>>
       \/ modes.maxConcurrency >= 1
    /\ IF ~modes.fetchOk
       THEN modes' = [modes EXCEPT !.concurrent = Returned(FetchFailed)]
       ELSE IF InvalidAnswers(modes.request) = {}
            THEN modes' = [modes EXCEPT !.concurrent = Returned(NilError)]
            ELSE \E first \in InvalidAnswers(modes.request) :
                     modes' =
                        [modes EXCEPT !.concurrent =
                            Returned([kind |-> "concurrent",
                                      cause |-> AnswerError(modes.request.answers[first]).kind,
                                      code |-> modes.request.answers[first].questionCode,
                                      count |-> Cardinality(InvalidAnswers(modes.request))])]
    /\ UNCHANGED <<settledVars, reportVars, registry, container, repo, version>>

NextModes ==
    \/ SequentialValidateAnswersheet
    \/ ConcurrentValidateAnswersheet

\* one request is about to be handed to a service of each mode
InitModes ==
    /\ modes \in [request : ModeRequests,
                  fetchOk : BOOLEAN,
                  maxConcurrency : 0 .. MaxConcurrency,
                  sequential : {NotValidated},
                  concurrent : {NotValidated}]
    /\ ReportParked
    /\ RegistryParked
    /\ ContainerParked
    /\ RepoParked
    /\ VersionParked
    /\ BatchParked
    /\ ChainParked
    /\ SerialParked
    /\ ValidationParked
    /\ CalculateParked
    /\ FactoryParked
    /\ AbilityParked
    /\ HandleParked
    /\ CallsParked

SpecModes == InitModes /\ [][NextModes]_vars

\* C35: once both services have returned for the same request and the same
\* questionnaire metadata, one has rejected the request if and only if the
\* other has, a request whose only defect is invalid testee metadata
\* included.
C35_SameAcceptance ==
    (modes.sequential.returned /\ modes.concurrent.returned) =>
        ((modes.sequential.err = NilError) <=> (modes.concurrent.err = NilError))

\* the two services agree on every request whose testee metadata is valid
C35_AgreeOnValidTestee ==
    (modes.sequential.returned /\ modes.concurrent.returned /\ modes.request.testeeOk) =>
        ((modes.sequential.err = NilError) <=> (modes.concurrent.err = NilError))

\* a request whose only defect is its testee metadata was rejected by the
\* sequential service and accepted by the concurrent one
C35_TesteeOnlyDefect ==
    /\ modes.sequential.returned
    /\ modes.concurrent.returned
    /\ modes.fetchOk
    /\ ~modes.request.testeeOk
    /\ InvalidAnswers(modes.request) = {}
    /\ Len(modes.request.answers) = 2
    /\ modes.sequential.err = ValidationFailed(TesteeError)
    /\ modes.concurrent.err = NilError

(***************************************************************************)
(* The database Registry: Register, Init, Close and IsInitialized. Every   *)
(* method holds r.mu for its whole body, so each call is one step. A       *)
(* connection's Connect and Close each succeed or fail.                    *)
(***************************************************************************)
\* const ( MySQL, MongoDB, Redis DatabaseType )
DatabaseTypes == {"mysql", "mongodb", "redis"}

\* the configs handed to Register
ConfigValues == {"config-a", "config-b"}

\* the connections handed to Register: nil, or a connection of some type
\* that has not been connected
ConnectionValues == {[isNil |-> TRUE, type |-> ""]} \cup
                    [isNil : {FALSE}, type : DatabaseTypes]

\* the result of the last call before any call
NoCall == [op |-> "", err |-> "", sealed |-> FALSE, kept |-> TRUE]

\* func NewRegistry() *Registry; r.connections[t] is "none" when the map has
\* no entry for t, otherwise the state of the connection; sealed is history:
\* an Init has returned nil and no Close has returned nil since
NewRegistry ==
    [connections |-> [t \in DatabaseTypes |-> "none"],
     configs |-> [t \in DatabaseTypes |-> ""],
     initialized |-> FALSE,
     sealed |-> FALSE,
     last |-> NoCall]

\* the types with an entry in r.connections
Registered == { t \in DatabaseTypes : registry.connections[t] # "none" }

\* func (r *Registry) IsInitialized() bool
RegistryIsInitialized == registry.initialized

\* the result of a Register call that has changed neither map
RegisterFails(err) ==
    registry' = [registry EXCEPT !.last = [op |-> "Register", err |-> err,
                                           sealed |-> registry.sealed,
                                           kept |-> TRUE]]

\* a variant of Register without the check of r.initialized
RegisterUnguarded(dbType, config, connection) ==
    /\ IF connection.isNil
       THEN RegisterFails("connection cannot be nil")
       ELSE IF connection.type # dbType
            THEN RegisterFails("connection type mismatch")
            ELSE registry' =
                    [registry EXCEPT
                        !.connections[dbType] = "unconnected",
                        !.configs[dbType] = config,
                        !.last = [op |-> "Register", err |-> "",
                                  sealed |-> registry.sealed,
                                  kept |-> /\ registry.connections[dbType] = "unconnected"
                                           /\ registry.configs[dbType] = config]]
    /\ UNCHANGED <<settledVars, reportVars, modes, container, repo, version>>

\* func (r *Registry) Register(dbType, config, connection) error
Register(dbType, config, connection) ==
    /\ IF registry.initialized
       THEN RegisterFails("registry already initialized")
       ELSE IF connection.isNil
            THEN RegisterFails("connection cannot be nil")
            ELSE IF connection.type # dbType
                 THEN RegisterFails("connection type mismatch")
                 ELSE registry' =
                         [registry EXCEPT
                             !.connections[dbType] = "unconnected",
                             !.configs[dbType] = config,
                             !.last = [op |-> "Register", err |-> "",
                                       sealed |-> registry.sealed,
                                       kept |-> /\ registry.connections[dbType] = "unconnected"
                                                /\ registry.configs[dbType] = config]]
    /\ UNCHANGED <<settledVars, reportVars, modes, container, repo, version>>

\* func (r *Registry) Init() error: the range over the map r.connections
\* visits the connections in any order and stops at the first Connect that
\* fails; the connections visited before it stay connected
RegistryInit ==
    /\ IF registry.initialized
       THEN registry' = [registry EXCEPT !.sealed = TRUE,
                                         !.last = [op |-> "Init", err |-> "",
                                                   sealed |-> registry.sealed,
                                                   kept |-> TRUE]]
       ELSE \/ registry' =
                  [registry EXCEPT
                      !.connections = [t \in DatabaseTypes |->
                                          IF t \in Registered THEN "open" ELSE "none"],
                      !.initialized = TRUE,
                      !.sealed = TRUE,
                      !.last = [op |-> "Init", err |-> "", sealed |-> registry.sealed,
                                kept |-> TRUE]]
            \/ \E failing \in Registered :
                 \E connected \in SUBSET (Registered \ {failing}) :
                    registry' =
                       [registry EXCEPT
                           !.connections = [t \in DatabaseTypes |->
                                               IF t \in connected THEN "open"
                                               ELSE registry.connections[t]],
                           !.last = [op |-> "Init", err |-> "failed to connect",
                                     sealed |-> registry.sealed, kept |-> TRUE]]
    /\ UNCHANGED <<settledVars, reportVars, modes, container, repo, version>>

\* func (r *Registry) Close() error: Close is called on every connection;
\* r.initialized is reset only if none of them has returned an error. A
\* connection whose Close has failed is as it was
RegistryClose ==
    /\ \E failed \in SUBSET Registered :
          registry' =
             [registry EXCEPT
                 !.connections = [t \in DatabaseTypes |->
                                     IF t \in Registered \ failed THEN "closed"
                                     ELSE registry.connections[t]],
                 !.initialized = IF failed = {} THEN FALSE ELSE registry.initialized,
                 !.sealed = IF failed = {} THEN FALSE ELSE registry.sealed,
                 !.last = [op |-> "Close",
                           err |-> IF failed = {} THEN "" ELSE "errors closing databases",
                           sealed |-> registry.sealed, kept |-> TRUE]]
    /\ UNCHANGED <<settledVars, reportVars, modes, container, repo, version>>

NextRegistry ==
    \/ \E dbType \in DatabaseTypes, config \in ConfigValues,
          connection \in ConnectionValues : Register(dbType, config, connection)
    \/ RegistryInit
    \/ RegistryClose

\* a new Registry
InitRegistry ==
    /\ registry = NewRegistry
    /\ ReportParked
    /\ ModesParked
    /\ ContainerParked
    /\ RepoParked
    /\ VersionParked
    /\ BatchParked
    /\ ChainParked
    /\ SerialParked
    /\ ValidationParked
    /\ CalculateParked
    /\ FactoryParked
    /\ AbilityParked
    /\ HandleParked
    /\ CallsParked

SpecRegistry == InitRegistry /\ [][NextRegistry]_vars

\* C36: after any sequence of Register, Init and Close calls, IsInitialized()
\* is never true while a registered connection has been closed by Close or
\* has not been connected, and never false while a connection opened by Init
\* is still open.
C36_InitializedIffConnected ==
    /\ RegistryIsInitialized =>
          \A t \in Registered : registry.connections[t] = "open"
    /\ ~RegistryIsInitialized =>
          \A t \in Registered : registry.connections[t] # "open"

\* IsInitialized() is true whenever every connection of a registry that has
\* connections was opened by an Init that returned nil
C36_TrueAfterInit ==
    (registry.last.op = "Init" /\ registry.last.err = "") => RegistryIsInitialized

\* an Init has failed at the second of two connections: the first is open
\* and IsInitialized() is false
C36_OpenButNotInitialized ==
    /\ registry.last.op = "Init"
    /\ registry.last.err # ""
    /\ ~RegistryIsInitialized
    /\ \E t \in Registered : registry.connections[t] = "open"

\* C37: once Init has succeeded and until a Close has succeeded, every
\* Register call fails and leaves the registered connections and configs
\* unchanged.
C37_SealedAfterInit ==
    (registry.last.op = "Register" /\ registry.last.sealed) =>
        /\ registry.last.err # ""
        /\ registry.last.kept
        /\ registry.sealed

\* Register has failed on a registry whose Init had succeeded and whose
\* Close had then failed after closing one of two connections
C37_Witness ==
    /\ registry.last.op = "Register"
    /\ registry.last.sealed
    /\ registry.last.err = "registry already initialized"
    /\ \E t, u \in Registered : /\ registry.connections[t] = "closed"
                                /\ registry.connections[u] = "open"

(***************************************************************************)
(* The apiserver Container: Initialize, Cleanup and IsInitialized. The     *)
(* modules are kept in the package-level modulePool; a module's Initialize *)
(* and Cleanup each succeed or fail.                                       *)
(***************************************************************************)
\* the modules in the order Initialize initializes them
ModuleOrder ==
    <<"user", "auth", "questionnaire", "answersheet", "medicalscale", "interpretreport">>

ModuleNames == { ModuleOrder[k] : k \in 1 .. Len(ModuleOrder) }

\* the modules whose init function can return an error:
\* initInterpretReportModule always returns nil
FailingModules == 1 .. (Len(ModuleOrder) - 1)

\* func NewContainer(mysqlDB, mongoDB) *Container, with an empty modulePool;
\* modules[m] is "none" when modulePool has no entry for m. since is history:
\* the modules initialized since the last Cleanup call, in order
NewContainer ==
    [modules |-> [m \in ModuleNames |-> "none"],
     initialized |-> FALSE,
     since |-> <<>>,
     last |-> [op |-> "", err |-> "", wasInitialized |-> FALSE, count |-> 0]]

\* func (c *Container) IsInitialized() bool
ContainerIsInitialized == container.initialized

\* the modules in modulePool
ModulePool == { m \in ModuleNames : container.modules[m] # "none" }

\* a variant of Initialize that sets c.initialized before the modules are
\* initialized
InitializeFlagFirst ==
    /\ IF container.initialized
       THEN container' = [container EXCEPT
                             !.last = [op |-> "Initialize", err |-> "",
                                       wasInitialized |-> TRUE, count |-> 0]]
       ELSE \/ container' =
                  [container EXCEPT
                      !.modules = [m \in ModuleNames |-> "initialized"],
                      !.initialized = TRUE,
                      !.since = ModuleOrder,
                      !.last = [op |-> "Initialize", err |-> "",
                                wasInitialized |-> FALSE, count |-> Len(ModuleOrder)]]
            \/ \E k \in FailingModules :
                  container' =
                     [container EXCEPT
                         !.modules = [m \in ModuleNames |->
                                         IF \E j \in 1 .. (k - 1) : ModuleOrder[j] = m
                                         THEN "initialized"
                                         ELSE container.modules[m]],
                         !.initialized = TRUE,
                         !.since = SubSeq(ModuleOrder, 1, k - 1),
                         !.last = [op |-> "Initialize",
                                   err |-> "failed to initialize module",
                                   wasInitialized |-> FALSE, count |-> k - 1]]
    /\ UNCHANGED <<settledVars, reportVars, modes, registry, repo, version>>

\* func (c *Container) Initialize() error: the six init functions in order,
\* up to the first that fails; each that succeeds stores its module in
\* modulePool
Initialize ==
    /\ IF container.initialized
       THEN container' = [container EXCEPT
                             !.last = [op |-> "Initialize", err |-> "",
                                       wasInitialized |-> TRUE, count |-> 0]]
       ELSE \/ container' =
                  [container EXCEPT
                      !.modules = [m \in ModuleNames |-> "initialized"],
                      !.initialized = TRUE,
                      !.since = ModuleOrder,
                      !.last = [op |-> "Initialize", err |-> "",
                                wasInitialized |-> FALSE, count |-> Len(ModuleOrder)]]
            \/ \E k \in FailingModules :
                  container' =
                     [container EXCEPT
                         !.modules = [m \in ModuleNames |->
                                         IF \E j \in 1 .. (k - 1) : ModuleOrder[j] = m
                                         THEN "initialized"
                                         ELSE container.modules[m]],
                         !.since = SubSeq(ModuleOrder, 1, k - 1),
                         !.last = [op |-> "Initialize",
                                   err |-> "failed to initialize module",
                                   wasInitialized |-> FALSE, count |-> k - 1]]
    /\ UNCHANGED <<settledVars, reportVars, modes, registry, repo, version>>

\* func (c *Container) Cleanup() error: the range over modulePool visits the
\* modules in any order and returns at the first Cleanup that fails, before
\* c.initialized = false
Cleanup ==
    /\ \/ container' =
             [container EXCEPT
                 !.modules = [m \in ModuleNames |->
                                 IF m \in ModulePool THEN "cleaned" ELSE "none"],
                 !.initialized = FALSE,
                 !.since = <<>>,
                 !.last = [op |-> "Cleanup", err |-> "",
                           wasInitialized |-> container.initialized, count |-> 0]]
       \/ \E failing \in ModulePool :
             \E cleaned \in SUBSET (ModulePool \ {failing}) :
                container' =
                   [container EXCEPT
                       !.modules = [m \in ModuleNames |->
                                       IF m \in cleaned THEN "cleaned"
                                       ELSE container.modules[m]],
                       !.since = <<>>,
                       !.last = [op |-> "Cleanup", err |-> "failed to cleanup module",
                                 wasInitialized |-> container.initialized, count |-> 0]]
    /\ UNCHANGED <<settledVars, reportVars, modes, registry, repo, version>>

NextContainer ==
    \/ Initialize
    \/ Cleanup

\* a new Container
InitContainer ==
    /\ container = NewContainer
    /\ ReportParked
    /\ ModesParked
    /\ RegistryParked
    /\ RepoParked
    /\ VersionParked
    /\ BatchParked
    /\ ChainParked
    /\ SerialParked
    /\ ValidationParked
    /\ CalculateParked
    /\ FactoryParked
    /\ AbilityParked
    /\ HandleParked
    /\ CallsParked

SpecContainer == InitContainer /\ [][NextContainer]_vars

\* C38: IsInitialized() is true only if all six module initializations, in
\* the order user, auth, questionnaire, answersheet, medical scale, interpret
\* report, have succeeded since the last Cleanup; a failed Initialize leaves
\* it false, and an Initialize on an initialized container re-initializes no
\* module.
C38_InitializedOnlyAfterAllSix ==
    /\ ContainerIsInitialized => container.since = ModuleOrder
    /\ (container.last.op = "Initialize" /\ container.last.err # "")
          => ~ContainerIsInitialized
    /\ (container.last.op = "Initialize" /\ container.last.wasInitialized)
          => container.last.count = 0

\* a failed Initialize leaves IsInitialized() false, an Initialize on an
\* initialized container re-initializes no module, and IsInitialized() is
\* true only if the six modules were initialized in order since the last
\* Cleanup that returned nil
C38_UpToFailedCleanup ==
    /\ (container.last.op = "Initialize" /\ container.last.err # "")
          => ~ContainerIsInitialized
    /\ (container.last.op = "Initialize" /\ container.last.wasInitialized)
          => /\ container.last.count = 0
             /\ container.last.err = ""
    /\ ContainerIsInitialized =>
          \/ container.since = ModuleOrder
          \/ /\ container.since = <<>>
             /\ \A m \in ModuleNames : container.modules[m] # "none"

\* a Cleanup of an initialized container has cleaned up a module and failed
\* at another: IsInitialized() is still true
C38_CleanedButInitialized ==
    /\ container.last.op = "Cleanup"
    /\ container.last.err # ""
    /\ ContainerIsInitialized
    /\ \E m \in ModuleNames : container.modules[m] = "cleaned"

(***************************************************************************)
(* The questionnaire repository on MongoDB: Create, Update, Remove,        *)
(* HardDelete, and the reads ExistsByCode, FindByCode and                  *)
(* FindActiveQuestionnaires. The collection holds at most one document for *)
(* a code; the driver's calls do what their filter and update say.         *)
(***************************************************************************)
\* the codes of the questionnaires
QuestionnaireCodes == {"q1", "q2"}

\* the status field of a document: 1 is StatusActive
StatusValues == {0, 1}

\* no document
NoDocument == [present |-> FALSE, status |-> 0, deleted |-> FALSE]

\* the result of the last call before any call
NoRepoCall == [op |-> "", code |-> "", err |-> "", found |-> {}]

\* func NewRepository(db) over an empty collection; removed is history: the
\* codes whose Remove has returned nil, until a document of the code is
\* created again
NewRepository ==
    [docs |-> [c \in QuestionnaireCodes |-> NoDocument],
     removed |-> {},
     last |-> NoRepoCall]

\* the codes of the documents that match the filter {"code": code}
MatchCode(code) == { c \in QuestionnaireCodes : c = code /\ repo.docs[c].present }

\* the codes of the documents that match {"code": code, "deleted_at":
\* {"$exists": false}}
MatchCodeNotDeleted(code) == { c \in MatchCode(code) : ~repo.docs[c].deleted }

\* the codes of the documents that match {"status": 1, "deleted_at":
\* {"$exists": false}}
MatchActive ==
    { c \in QuestionnaireCodes : /\ repo.docs[c].present
                                 /\ repo.docs[c].status = 1
                                 /\ ~repo.docs[c].deleted }

\* func (r *Repository) ExistsByCode(ctx, code) (bool, error)
ExistsByCode(code) == MatchCodeNotDeleted(code) # {}

\* func (r *Repository) FindByCode(ctx, code): the questionnaires returned,
\* none when FindOne returns mongo.ErrNoDocuments
FindByCode(code) == MatchCode(code)

\* func (r *Repository) FindActiveQuestionnaires(ctx)
FindActiveQuestionnaires == MatchActive

\* func (r *Repository) Create(ctx, qDomain) error
RepoCreate(code, status) ==
    /\ ~repo.docs[code].present
    /\ repo' = [repo EXCEPT
                   !.docs[code] = [present |-> TRUE, status |-> status,
                                   deleted |-> FALSE],
                   !.removed = @ \ {code},
                   !.last = [op |-> "Create", code |-> code, err |-> "", found |-> {}]]
    /\ UNCHANGED <<settledVars, reportVars, modes, registry, container, version>>

\* func (r *Repository) Update(ctx, qDomain) error: $set of the
\* questionnaire's own fields on the document of its code
RepoUpdate(code, status) ==
    /\ repo' = [repo EXCEPT
                   !.docs[code] = IF repo.docs[code].present
                                  THEN [repo.docs[code] EXCEPT !.status = status]
                                  ELSE repo.docs[code],
                   !.last = [op |-> "Update", code |-> code, err |-> "", found |-> {}]]
    /\ UNCHANGED <<settledVars, reportVars, modes, registry, container, version>>

\* func (r *Repository) Remove(ctx, code) error: $set of deleted_at,
\* deleted_by and updated_at on the document of the code
RepoRemove(code) ==
    /\ IF MatchCode(code) = {}
       THEN repo' = [repo EXCEPT
                        !.last = [op |-> "Remove", code |-> code,
                                  err |-> "mongo.ErrNoDocuments", found |-> {}]]
       ELSE repo' = [repo EXCEPT
                        !.docs[code].deleted = TRUE,
                        !.removed = @ \cup {code},
                        !.last = [op |-> "Remove", code |-> code, err |-> "",
                                  found |-> {}]]
    /\ UNCHANGED <<settledVars, reportVars, modes, registry, container, version>>

\* func (r *Repository) HardDelete(ctx, code) error
RepoHardDelete(code) ==
    /\ IF MatchCode(code) = {}
       THEN repo' = [repo EXCEPT
                        !.last = [op |-> "HardDelete", code |-> code,
                                  err |-> "mongo.ErrNoDocuments", found |-> {}]]
       ELSE repo' = [repo EXCEPT
                        !.docs[code] = NoDocument,
                        !.last = [op |-> "HardDelete", code |-> code, err |-> "",
                                  found |-> {}]]
    /\ UNCHANGED <<settledVars, reportVars, modes, registry, container, version>>

\* q, err := repo.FindByCode(ctx, code)
RepoFindByCode(code) ==
    /\ repo' = [repo EXCEPT !.last = [op |-> "FindByCode", code |-> code,
                                      err |-> "", found |-> FindByCode(code)]]
    /\ UNCHANGED <<settledVars, reportVars, modes, registry, container, version>>

\* ok, err := repo.ExistsByCode(ctx, code)
RepoExistsByCode(code) ==
    /\ repo' = [repo EXCEPT !.last = [op |-> "ExistsByCode", code |-> code,
                                      err |-> "",
                                      found |-> IF ExistsByCode(code) THEN {code} ELSE {}]]
    /\ UNCHANGED <<settledVars, reportVars, modes, registry, container, version>>

\* qs, err := repo.FindActiveQuestionnaires(ctx)
RepoFindActiveQuestionnaires ==
    /\ repo' = [repo EXCEPT !.last = [op |-> "FindActiveQuestionnaires", code |-> "",
                                      err |-> "", found |-> FindActiveQuestionnaires]]
    /\ UNCHANGED <<settledVars, reportVars, modes, registry, container, version>>

NextRepo ==
    \/ \E code \in QuestionnaireCodes, status \in StatusValues : RepoCreate(code, status)
    \/ \E code \in QuestionnaireCodes, status \in StatusValues : RepoUpdate(code, status)
    \/ \E code \in QuestionnaireCodes : RepoRemove(code)
    \/ \E code \in QuestionnaireCodes : RepoHardDelete(code)
    \/ \E code \in QuestionnaireCodes : RepoFindByCode(code)
    \/ \E code \in QuestionnaireCodes : RepoExistsByCode(code)
    \/ RepoFindActiveQuestionnaires

\* a repository over an empty collection
InitRepo ==
    /\ repo = NewRepository
    /\ ReportParked
    /\ ModesParked
    /\ RegistryParked
    /\ ContainerParked
    /\ VersionParked
    /\ BatchParked
    /\ ChainParked
    /\ SerialParked
    /\ ValidationParked
    /\ CalculateParked
    /\ FactoryParked
    /\ AbilityParked
    /\ HandleParked
    /\ CallsParked

SpecRepo == InitRepo /\ [][NextRepo]_vars

\* C39: after Remove(code) has succeeded, every read treats the
\* questionnaire as deleted: ExistsByCode(code) returns false,
\* FindActiveQuestionnaires omits it and FindByCode(code) does not return it.
C39_RemovedIsGone ==
    \A code \in repo.removed :
        /\ ~ExistsByCode(code)
        /\ code \notin FindActiveQuestionnaires
        /\ FindByCode(code) = {}
        /\ repo.last.op \in {"FindByCode", "ExistsByCode", "FindActiveQuestionnaires"}
              => code \notin repo.last.found

\* after Remove(code) has succeeded, ExistsByCode(code) returns false and
\* FindActiveQuestionnaires omits the questionnaire
C39_FilteredReads ==
    \A code \in repo.removed :
        /\ ~ExistsByCode(code)
        /\ code \notin FindActiveQuestionnaires
        /\ repo.last.op \in {"ExistsByCode", "FindActiveQuestionnaires"}
              => code \notin repo.last.found

\* FindByCode has returned a questionnaire whose Remove had succeeded
C39_FoundAfterRemove ==
    /\ repo.last.op = "FindByCode"
    /\ repo.last.code \in repo.removed
    /\ repo.last.found = {repo.last.code}
    /\ ~ExistsByCode(repo.last.code)

(***************************************************************************)
(* The questionnaire's status: VersionService.Publish,                     *)
(* QuestionService.AddQuestion, and the aggregate's own Publish and        *)
(* Unpublish, which the application's Publisher calls.                     *)
(***************************************************************************)
\* the most times the aggregate's Publish increments the version
MaxRevisions == 2

\* const ( STATUS_DRAFT = 0, STATUS_PUBLISHED = 1, STATUS_ARCHIVED = 2 )
STATUS_DRAFT == 0
STATUS_PUBLISHED == 1
STATUS_ARCHIVED == 2

QuestionnaireStatus == {STATUS_DRAFT, STATUS_PUBLISHED, STATUS_ARCHIVED}

\* the codes of the questions handed to AddQuestion; "" is the nil question
QuestionCodes == {"Q1", "Q2"}

\* the result of the last call before any call
NoVersionCall == [op |-> "", err |-> "", status |-> STATUS_DRAFT, count |-> 0]

\* the result of a call with error err on the questionnaire as it is
VersionCall(op, err) ==
    [op |-> op, err |-> err, status |-> version.status,
     count |-> Cardinality(version.questions)]

\* NewQuestionnaire(code, ..., WithStatus(status)): a questionnaire without
\* questions
NewQuestionnaire(status) ==
    [status |-> status, questions |-> {}, revision |-> 0, last |-> NoVersionCall]

\* func (QuestionService) AddQuestion(q, newQuestion) error
AddQuestion(newQuestion) ==
    /\ IF newQuestion = ""
       THEN version' = [version EXCEPT
                           !.last = VersionCall("AddQuestion", "question is nil")]
       ELSE IF newQuestion \in version.questions
            THEN version' = [version EXCEPT
                                !.last = VersionCall("AddQuestion", "code already exists")]
            ELSE version' = [version EXCEPT
                                !.questions = @ \cup {newQuestion},
                                !.last = VersionCall("AddQuestion", "")]
    /\ UNCHANGED <<settledVars, reportVars, modes, registry, container, repo>>

\* a variant of VersionService.Publish without the check of the status
VersionServicePublishAnyStatus ==
    /\ IF Cardinality(version.questions) = 0
       THEN version' = [version EXCEPT
                           !.last = VersionCall("VersionService.Publish",
                                                "ErrQuestionnaireQuestionInvalid")]
       ELSE version' = [version EXCEPT
                           !.status = STATUS_PUBLISHED,
                           !.last = VersionCall("VersionService.Publish", "")]
    /\ UNCHANGED <<settledVars, reportVars, modes, registry, container, repo>>

\* func (VersionService) Publish(q *Questionnaire) error
VersionServicePublish ==
    /\ IF Cardinality(version.questions) = 0
       THEN version' = [version EXCEPT
                           !.last = VersionCall("VersionService.Publish",
                                                "ErrQuestionnaireQuestionInvalid")]
       ELSE IF version.status # STATUS_DRAFT
            THEN version' = [version EXCEPT
                                !.last = VersionCall("VersionService.Publish",
                                                     "ErrQuestionnaireStatusInvalid")]
            ELSE version' = [version EXCEPT
                                !.status = STATUS_PUBLISHED,
                                !.last = VersionCall("VersionService.Publish", "")]
    /\ UNCHANGED <<settledVars, reportVars, modes, registry, container, repo>>

\* func (q *Questionnaire) Publish(), called by Publisher.Publish:
\* q.status = STATUS_PUBLISHED; q.version = q.version.Increment()
QuestionnairePublish ==
    /\ version.revision < MaxRevisions
    /\ version' = [version EXCEPT
                      !.status = STATUS_PUBLISHED,
                      !.revision = @ + 1,
                      !.last = VersionCall("Questionnaire.Publish", "")]
    /\ UNCHANGED <<settledVars, reportVars, modes, registry, container, repo>>

\* func (q *Questionnaire) Unpublish(): q.status = STATUS_DRAFT
QuestionnaireUnpublish ==
    /\ version' = [version EXCEPT
                      !.status = STATUS_DRAFT,
                      !.last = VersionCall("Questionnaire.Unpublish", "")]
    /\ UNCHANGED <<settledVars, reportVars, modes, registry, container, repo>>

NextVersion ==
    \/ \E newQuestion \in QuestionCodes \cup {""} : AddQuestion(newQuestion)
    \/ VersionServicePublish
    \/ QuestionnairePublish
    \/ QuestionnaireUnpublish

\* a questionnaire as NewQuestionnaire makes it, in any status
InitVersion ==
    /\ \E status \in QuestionnaireStatus : version = NewQuestionnaire(status)
    /\ ReportParked
    /\ ModesParked
    /\ RegistryParked
    /\ ContainerParked
    /\ RepoParked
    /\ BatchParked
    /\ ChainParked
    /\ SerialParked
    /\ ValidationParked
    /\ CalculateParked
    /\ FactoryParked
    /\ AbilityParked
    /\ HandleParked
    /\ CallsParked

SpecVersion == InitVersion /\ [][NextVersion]_vars

\* the last call was a Publish
Published == version.last.op \in {"VersionService.Publish", "Questionnaire.Publish"}

\* C40: a questionnaire's status becomes PUBLISHED only through a Publish on
\* a questionnaire in DRAFT status with at least one question; a failed
\* Publish leaves the status unchanged; a Publish on a PUBLISHED or ARCHIVED
\* questionnaire never succeeds.
C40_PublishOnlyFromDraft ==
    /\ (version.last.op # "" /\ version.status = STATUS_PUBLISHED
            /\ version.last.status # STATUS_PUBLISHED)
          => /\ Published
             /\ version.last.status = STATUS_DRAFT
             /\ version.last.count >= 1
    /\ (Published /\ version.last.err # "") => version.status = version.last.status
    /\ (Published /\ version.last.status \in {STATUS_PUBLISHED, STATUS_ARCHIVED})
          => version.last.err # ""

\* the same of VersionService.Publish alone: it publishes only a DRAFT
\* questionnaire with at least one question, leaves the status unchanged
\* when it fails, and fails on a PUBLISHED or ARCHIVED questionnaire
C40_VersionServiceOnly ==
    version.last.op = "VersionService.Publish" =>
        /\ version.last.err = "" <=>
              (version.last.status = STATUS_DRAFT /\ version.last.count >= 1)
        /\ version.last.err = "" => version.status = STATUS_PUBLISHED
        /\ version.last.err # "" => version.status = version.last.status

\* the aggregate's Publish has published an ARCHIVED questionnaire without
\* questions
C40_ArchivedPublished ==
    /\ version.last.op = "Questionnaire.Publish"
    /\ version.last.status = STATUS_ARCHIVED
    /\ version.last.count = 0
    /\ version.status = STATUS_PUBLISHED

\* VersionService.Publish has published a DRAFT questionnaire of two
\* questions
C40_DraftPublished ==
    /\ version.last.op = "VersionService.Publish"
    /\ version.last.err = ""
    /\ version.last.status = STATUS_DRAFT
    /\ version.last.count = 2
    /\ version.status = STATUS_PUBLISHED

=============================================================================
